---- MODULE Spec2Model ----
(***************************************************************************)
(* Verification model of the growthnity dashboard client:                  *)
(*   - DashboardComponent.recomputeFilterDropdowns and the clear*Filter    *)
(*     handlers (cascading filter option lists),                           *)
(*   - CacheService (TTL cache with in-flight request sharing),            *)
(*   - AuthService.logout / handleSessionExpired and the request cache,    *)
(*   - DashboardComponent.debouncedLoadData and loadData (debounced,       *)
(*     batched data loading),                                              *)
(*   - the request Maps and cache keys of DashboardService.                *)
(*   - CouponsComponent's filters over the compound coupon option value,  *)
(*   - AuthService.login and authInterceptor (refresh and retry on 401).   *)
(* Strings that are only compared for order (names, coupon codes) are      *)
(* modelled by their rank under localeCompare.                             *)
(***************************************************************************)
EXTENDS Integers, Sequences, FiniteSets, TLC

(***************************************************************************)
(* Bounds of the model.                                                    *)
(***************************************************************************)
MaxCoupons == 2        \* coupons returned by the filter-options endpoint
NumCodes == 2          \* distinct coupon codes
NumAdvertisers == 2    \* advertisers in the catalog
NumPartners == 2       \* partners in the catalog
NumKeys == 2           \* cache keys in use
NumCallers == 2        \* concurrent callers of CacheService.get
MaxObs == 2            \* observables CacheService.get creates in one run
MaxTime == 2           \* last value of the clock Date.now()
MaxTtl == 1            \* longest time-to-live passed to get and set
MaxRuns == 2           \* concurrent executions of the request of one observable
NumUsers == 2          \* accounts that log in
MaxBatches == 2        \* loadData calls in one run of the dashboard
NumPages == 2          \* pages of the performance table
MaxRegistered == 2     \* requests registered in the Maps of DashboardService at a time
MaxCalls == 2          \* HTTP requests DashboardService sends in one run

VARIABLES
    \* DashboardComponent
    allAdvertisers, allPartners, allCoupons,    \* master lists
    advertisers, partners, coupons,             \* dropdown option lists
    filters,                                    \* DashboardFilters
    pc,                                         \* position of the UI callback
    \* CacheService
    cache,          \* Map<string, CacheEntry>
    requests,       \* Map<string, Observable>: the id of the registered observable
    obs,            \* the observables get has created (request.pipe(tap, shareReplay(1)))
    now,            \* Date.now()
    callers,        \* the callers of get: the observable each holds and its outcome
    \* AuthService
    isAuthenticated,    \* isAuthenticatedSignal
    currentUser,        \* currentUserSignal
    idleTimer,          \* the idle timeout is armed
    localStorage,       \* the items auth_token, refresh_token, logged_user
    routerUrl,          \* the route the router has navigated to
    loginCall,          \* a call of AuthService.login and its progress
    intercepted,        \* a request passing through authInterceptor
    \* DashboardComponent: data, charts, UI state, pagination, debouncing
    kpis, tableData, totalRecords, graphData, lineChart, pieChart,
    loading, showSkeletons,
    currentPage,
    filterDebounceTimer,    \* the handle the field holds
    timeouts,               \* the pending setTimeout callbacks: time left of each
    batches,                \* the forkJoin subscriptions loadData has made
    \* DashboardService
    serviceCaches,          \* kpiCache, tableDataCache, graphDataCache, pieChartCache
    httpCalls,              \* the HTTP requests the observables in the Maps have sent
    lastCall,               \* the last call of a get* method: what it asked for and got
    \* CouponsComponent: the filters of the coupons page and what they produce.
    \* Its fields allAdvertisers, allPartners, allCoupons, advertisers and
    \* partners are the variables of these names above, which the coupons
    \* specification reads as the fields of CouponsComponent.
    filterAdvertiser, filterPartner, filterCoupon, showUnassignedOnly,
    couponOptions, filteredCoupons

dashVars == <<allAdvertisers, allPartners, allCoupons,
              advertisers, partners, coupons, filters, pc>>

cacheVars == <<cache, requests, obs, now, callers>>

authVars == <<isAuthenticated, currentUser, idleTimer, localStorage, routerUrl>>

requestVars == <<loginCall, intercepted>>

viewVars == <<kpis, tableData, totalRecords, graphData, lineChart, pieChart,
              loading, showSkeletons, currentPage,
              filterDebounceTimer, timeouts, batches>>

serviceVars == <<serviceCaches, httpCalls, lastCall>>

pageVars == <<filterAdvertiser, filterPartner, filterCoupon, showUnassignedOnly,
              couponOptions, filteredCoupons>>

vars == <<dashVars, cacheVars, authVars, viewVars, serviceVars, pageVars, requestVars>>

(***************************************************************************)
(* Values.                                                                 *)
(***************************************************************************)
\* Coupon.partner_id is optional: an absent/null partner_id
NoPartner == 0

\* an absent partner_type of a coupon
NoType == "<undefined>"

AdvertiserIds == 1..NumAdvertisers
PartnerIds == 1..NumPartners
Codes == 1..NumCodes

\* a multi-valued filter field (number | number[] | null, possibly absent):
\* vals holds the elements of an array, or the one value of a scalar
NullField == [tag |-> "null", vals |-> <<>>]
UndefinedField == [tag |-> "undefined", vals |-> <<>>]
ArrayField(s) == [tag |-> "array", vals |-> s]
ScalarField(x) == [tag |-> "scalar", vals |-> <<x>>]

\* the single-valued partner_type field: null, undefined or a string
NullString == "<null>"
UndefinedString == "<undefined>"

\* departmentOptions
departmentOptions == {"MB", "AFF", "INF"}

(***************************************************************************)
(* Sequence helpers (Array.prototype.filter / includes / sort).            *)
(***************************************************************************)
Range(s) == {s[i] : i \in DOMAIN s}

Includes(s, x) == \E i \in DOMAIN s : s[i] = x

RECURSIVE Filter(_, _)
Filter(s, keep) ==
    IF s = <<>> THEN <<>>
    ELSE IF keep[Head(s)] THEN <<Head(s)>> \o Filter(Tail(s), keep)
         ELSE Filter(Tail(s), keep)

\* insert x into the sorted sequence s after every element whose key is <= key(x)
RECURSIVE InsertByKey(_, _, _)
InsertByKey(s, x, key) ==
    IF s = <<>> THEN <<x>>
    ELSE IF key[x] < key[Head(s)] THEN <<x>> \o s
         ELSE <<Head(s)>> \o InsertByKey(Tail(s), x, key)

\* Array.prototype.sort with comparator a.key.localeCompare(b.key): stable
RECURSIVE SortByKey(_, _)
SortByKey(s, key) ==
    IF s = <<>> THEN <<>>
    ELSE InsertByKey(SortByKey(SubSeq(s, 1, Len(s) - 1), key), s[Len(s)], key)

\* the injective sequences over S of length at most n
RECURSIVE InjSeqs(_, _)
InjSeqs(S, n) ==
    IF n = 0 THEN {<<>>}
    ELSE LET shorter == InjSeqs(S, n - 1)
         IN shorter \cup
            UNION {{Append(s, x) : x \in S \ Range(s)} : s \in shorter}

(***************************************************************************)
(* The catalog returned by GET filter-options (FilterOptions).             *)
(***************************************************************************)
\* options.advertisers: campaign names rank opposite to the ids
OptionAdvertisers ==
    [i \in 1..NumAdvertisers |-> [advertiser_id |-> i, campaign |-> NumAdvertisers + 1 - i]]

\* options.partners
OptionPartners ==
    [i \in 1..NumPartners |-> [partner_id |-> i, partner |-> i]]

\* the department of a partner: a coupon carries the type of its partner
PartnerTypeOf(p) ==
    IF p = NoPartner THEN NoType ELSE IF p % 2 = 1 THEN "MB" ELSE "AFF"

\* one entry of options.coupons
OptionCoupon(code, a, p) ==
    [coupon |-> code, advertiser_id |-> a, partner_id |-> p, partner_type |-> PartnerTypeOf(p)]

OptionCouponValues ==
    {OptionCoupon(code, a, p) : code \in Codes, a \in AdvertiserIds, p \in PartnerIds \cup {NoPartner}}

\* codes are unique per advertiser: (coupon, advertiser_id) is the identity
UniqueKeys(s) ==
    \A i, j \in DOMAIN s :
        (s[i].coupon = s[j].coupon /\ s[i].advertiser_id = s[j].advertiser_id) => i = j

\* options.coupons in any order the endpoint may return them
OptionCouponLists == {s \in InjSeqs(OptionCouponValues, MaxCoupons) : UniqueKeys(s)}

(***************************************************************************)
(* DashboardComponent.loadFilterOptions: the master lists.                 *)
(***************************************************************************)
MapAdvertiser(a) == [id |-> a.advertiser_id, name |-> a.campaign]

MapPartner(p) == [id |-> p.partner_id, name |-> p.partner]

MapCoupon(c) ==
    [code |-> c.coupon, advertiser_id |-> c.advertiser_id,
     partner_id |-> c.partner_id, partner_type |-> c.partner_type]

MasterAdvertisers(list) ==
    LET mapped == [i \in DOMAIN list |-> MapAdvertiser(list[i])]
    IN SortByKey(mapped, [x \in Range(mapped) |-> x.name])

MasterPartners(list) ==
    LET mapped == [i \in DOMAIN list |-> MapPartner(list[i])]
    IN SortByKey(mapped, [x \in Range(mapped) |-> x.name])

MasterCoupons(list) ==
    LET mapped == [i \in DOMAIN list |-> MapCoupon(list[i])]
    IN SortByKey(mapped, [x \in Range(mapped) |-> x.code])

(***************************************************************************)
(* DashboardComponent.recomputeFilterDropdowns.                            *)
(***************************************************************************)
\* variant: an empty array counts as an active filter
HasArrayFilter_EmptyArrayActive(f) == f.tag \notin {"null", "undefined"}

\* x != null && (!Array.isArray(x) || x.length > 0)
HasArrayFilter(f) ==
    /\ f.tag \notin {"null", "undefined"}
    /\ (f.tag # "array" \/ Len(f.vals) > 0)

\* partner_type != null && partner_type !== ''
HasDepartmentFilter(t) == t \notin {NullString, UndefinedString} /\ t # ""

\* Array.isArray(x) ? x : [x]
AsArray(f) == f.vals

\* c.partner_id && ids.includes(c.partner_id)
PartnerMatches(c, ids) == c.partner_id # NoPartner /\ Includes(ids, c.partner_id)

\* variant: the advertiser options are narrowed by the advertiser selection too
CouponsForAdvertisers_OwnFilter(f, all) ==
    LET s1 == IF HasDepartmentFilter(f.partner_type)
              THEN Filter(all, [c \in Range(all) |-> c.partner_type = f.partner_type])
              ELSE all
        s2 == IF HasArrayFilter(f.partner_id)
              THEN Filter(s1, [c \in Range(s1) |-> PartnerMatches(c, AsArray(f.partner_id))])
              ELSE s1
        s3 == IF HasArrayFilter(f.coupon_code)
              THEN Filter(s2, [c \in Range(s2) |-> Includes(AsArray(f.coupon_code), c.code)])
              ELSE s2
        s4 == IF HasArrayFilter(f.advertiser_id)
              THEN Filter(s3, [c \in Range(s3) |-> Includes(AsArray(f.advertiser_id), c.advertiser_id)])
              ELSE s3
    IN s4

\* the coupons the advertiser options are derived from
CouponsForAdvertisers(f, all) ==
    LET s1 == IF HasDepartmentFilter(f.partner_type)
              THEN Filter(all, [c \in Range(all) |-> c.partner_type = f.partner_type])
              ELSE all
        s2 == IF HasArrayFilter(f.partner_id)
              THEN Filter(s1, [c \in Range(s1) |-> PartnerMatches(c, AsArray(f.partner_id))])
              ELSE s1
        s3 == IF HasArrayFilter(f.coupon_code)
              THEN Filter(s2, [c \in Range(s2) |-> Includes(AsArray(f.coupon_code), c.code)])
              ELSE s2
    IN s3

AdvertiserOptionIds(f, all) ==
    {c.advertiser_id : c \in Range(CouponsForAdvertisers(f, all))}
    \cup (IF HasArrayFilter(f.advertiser_id) THEN Range(AsArray(f.advertiser_id)) ELSE {})

\* the coupons the partner options are derived from
CouponsForPartners(f, all) ==
    LET s1 == IF HasDepartmentFilter(f.partner_type)
              THEN Filter(all, [c \in Range(all) |-> c.partner_type = f.partner_type])
              ELSE all
        s2 == IF HasArrayFilter(f.advertiser_id)
              THEN Filter(s1, [c \in Range(s1) |-> Includes(AsArray(f.advertiser_id), c.advertiser_id)])
              ELSE s1
        s3 == IF HasArrayFilter(f.coupon_code)
              THEN Filter(s2, [c \in Range(s2) |-> Includes(AsArray(f.coupon_code), c.code)])
              ELSE s2
    IN s3

\* variant: the selected partners are not added to the derived set
PartnerOptionIds_NoUnion(f, all) ==
    {c.partner_id : c \in {d \in Range(CouponsForPartners(f, all)) : d.partner_id # NoPartner}}

PartnerOptionIds(f, all) ==
    {c.partner_id : c \in {d \in Range(CouponsForPartners(f, all)) : d.partner_id # NoPartner}}
    \cup (IF HasArrayFilter(f.partner_id) THEN Range(AsArray(f.partner_id)) ELSE {})

\* variant: coupons without partner are dropped from the coupon derivation
CouponsForCoupons_DropUnassigned(f, all) ==
    LET s1 == IF HasDepartmentFilter(f.partner_type)
              THEN Filter(all, [c \in Range(all) |-> c.partner_type = f.partner_type])
              ELSE all
        s2 == IF HasArrayFilter(f.advertiser_id)
              THEN Filter(s1, [c \in Range(s1) |-> Includes(AsArray(f.advertiser_id), c.advertiser_id)])
              ELSE s1
    IN Filter(s2, [c \in Range(s2) |-> c.partner_id # NoPartner])

\* the coupons the coupon options are derived from
CouponsForCoupons(f, all) ==
    LET s1 == IF HasDepartmentFilter(f.partner_type)
              THEN Filter(all, [c \in Range(all) |-> c.partner_type = f.partner_type])
              ELSE all
        s2 == IF HasArrayFilter(f.advertiser_id)
              THEN Filter(s1, [c \in Range(s1) |-> Includes(AsArray(f.advertiser_id), c.advertiser_id)])
              ELSE s1
        s3 == IF HasArrayFilter(f.partner_id)
              THEN Filter(s2, [c \in Range(s2) |-> PartnerMatches(c, AsArray(f.partner_id))])
              ELSE s2
    IN s3

CouponOptionCodes(f, all) ==
    {c.code : c \in Range(CouponsForCoupons(f, all))}
    \cup (IF HasArrayFilter(f.coupon_code) THEN Range(AsArray(f.coupon_code)) ELSE {})

NoFilterActive(f) ==
    /\ ~HasArrayFilter(f.advertiser_id)
    /\ ~HasArrayFilter(f.partner_id)
    /\ ~HasArrayFilter(f.coupon_code)
    /\ ~HasDepartmentFilter(f.partner_type)

\* variant: the advertiser options are listed in the order of their ids
ResolveAdvertisers_ById(f, allA, allC) ==
    LET kept == IF NoFilterActive(f) THEN allA
                ELSE Filter(allA, [a \in Range(allA) |-> a.id \in AdvertiserOptionIds(f, allC)])
    IN SortByKey(kept, [a \in Range(kept) |-> a.id])

\* the three option lists recomputeFilterDropdowns assigns
ResolveAdvertisers(f, allA, allC) ==
    IF NoFilterActive(f) THEN allA
    ELSE Filter(allA, [a \in Range(allA) |-> a.id \in AdvertiserOptionIds(f, allC)])

ResolvePartners(f, allP, allC) ==
    IF NoFilterActive(f) THEN allP
    ELSE Filter(allP, [p \in Range(allP) |-> p.id \in PartnerOptionIds(f, allC)])

ResolveCoupons(f, allC) ==
    IF NoFilterActive(f) THEN allC
    ELSE Filter(allC, [c \in Range(allC) |-> c.code \in CouponOptionCodes(f, allC)])

\* recomputeFilterDropdowns run on the filters f
Recompute(f) ==
    /\ advertisers' = ResolveAdvertisers(f, allAdvertisers, allCoupons)
    /\ partners' = ResolvePartners(f, allPartners, allCoupons)
    /\ coupons' = ResolveCoupons(f, allCoupons)

(***************************************************************************)
(* The selections the filter controls can hold.                            *)
(***************************************************************************)
ArrayFieldValues(S) ==
    {NullField, UndefinedField}
    \cup {ArrayField(s) : s \in InjSeqs(S, Cardinality(S))}
    \cup {ScalarField(x) : x \in S}

DepartmentValues == {NullString, UndefinedString, "", "MB", "AFF"}

\* selections over the values of the catalog
Selections(allA, allP, allC) ==
    [advertiser_id : ArrayFieldValues({a.id : a \in Range(allA)}),
     partner_id : ArrayFieldValues({p.id : p \in Range(allP)}),
     coupon_code : ArrayFieldValues({c.code : c \in Range(allC)}),
     partner_type : DepartmentValues]

(***************************************************************************)
(* CacheService: values and the state after construction.                  *)
(***************************************************************************)
Keys == 1..NumKeys
Callers == 1..NumCallers
TTLs == 1..MaxTtl

\* the payload set() writes directly; a response carries the id of the
\* observable whose request produced it
DirectData == 0

\* no entry in the Map
NoEntry == [present |-> FALSE, data |-> 0, timestamp |-> 0, ttl |-> 0]

\* CacheEntry
Entry(data, timestamp, ttl) ==
    [present |-> TRUE, data |-> data, timestamp |-> timestamp, ttl |-> ttl]

\* no observable registered in the requests Map
NoRequest == 0

\* a caller that holds nothing
IdleCaller == [pc |-> "idle", src |-> "none", id |-> 0, data |-> 0]

\* new Map(), new Map()
CacheConstructed ==
    /\ cache = [k \in Keys |-> NoEntry]
    /\ requests = [k \in Keys |-> NoRequest]
    /\ obs = <<>>
    /\ now = 0
    /\ callers = [c \in Callers |-> IdleCaller]

(***************************************************************************)
(* AuthService and the data fields of DashboardComponent: values and the   *)
(* state after construction.                                               *)
(***************************************************************************)
\* currentUserSignal holds null
NoUser == 0

\* localStorage.getItem returns null
NoItem == "<null>"

\* localStorage without the three items
EmptyStorage == [auth_token |-> NoItem, refresh_token |-> NoItem, logged_user |-> NoUser]

\* the items login has stored for the user u
StorageOf(u) == [auth_token |-> "login", refresh_token |-> "login", logged_user |-> u]

\* no call of login has been made
NoLogin == [pc |-> "idle", username |-> NoUser]

\* no request is passing through the interceptor
NoRequestIntercepted ==
    [pc |-> "idle", url |-> "none", header |-> NoItem, refreshCalls |-> 0,
     refreshed |-> FALSE, resends |-> 0, retryOutcome |-> "none", returned |-> "none"]

\* no stored token: isAuthenticatedSignal = signal(hasToken()) is false
AuthConstructed ==
    /\ isAuthenticated = FALSE
    /\ currentUser = NoUser
    /\ idleTimer = FALSE
    /\ localStorage = EmptyStorage
    /\ routerUrl = "/login"
    /\ loginCall = NoLogin
    /\ intercepted = NoRequestIntercepted

\* the request parameters buildParams sends when no filter is set
NoParams == [partner_type |-> "", advertiser_id |-> <<>>,
             partner_id |-> <<>>, coupon_code |-> <<>>]

\* kpis, graphData, lineChart, pieChart = null
NoData == [present |-> FALSE, params |-> NoParams]

\* the field initialisers of the data, chart, UI-state, pagination and
\* debouncing fields
ViewConstructed ==
    /\ kpis = NoData
    /\ tableData = <<>>
    /\ totalRecords = 0
    /\ graphData = NoData
    /\ lineChart = NoData
    /\ pieChart = NoData
    /\ loading = FALSE
    /\ showSkeletons = TRUE
    /\ currentPage = 1
    /\ filterDebounceTimer = "undefined"
    /\ timeouts = <<>>
    /\ batches = <<>>

\* the four Maps of DashboardService, each new Map()
CacheNames == {"kpiCache", "tableDataCache", "graphDataCache", "pieChartCache"}

\* no get* method has been called
NoCall == [asked |-> <<>>, served |-> <<>>]

ServiceConstructed ==
    /\ serviceCaches = [m \in CacheNames |-> {}]
    /\ httpCalls = <<>>
    /\ lastCall = NoCall

\* filterAdvertiser, filterPartner = null
NoFilterId == 0

\* filterCoupon = null; a string is the sequence of the pieces it is made of
NoFilterString == <<>>

\* the field initialisers of the filters and lists of CouponsComponent
PageConstructed ==
    /\ filterAdvertiser = NoFilterId
    /\ filterPartner = NoFilterId
    /\ filterCoupon = NoFilterString
    /\ showUnassignedOnly = FALSE
    /\ couponOptions = <<>>
    /\ filteredCoupons = <<>>

(***************************************************************************)
(* Resolver specification: a loaded catalog, a selection written by the    *)
(* filter controls, then the handlers that recompute the option lists.     *)
(***************************************************************************)
InitResolver ==
    /\ \E list \in OptionCouponLists :
        /\ allAdvertisers = MasterAdvertisers(OptionAdvertisers)
        /\ allPartners = MasterPartners(OptionPartners)
        /\ allCoupons = MasterCoupons(list)
    /\ advertisers = allAdvertisers
    /\ partners = allPartners
    /\ coupons = allCoupons
    /\ filters \in Selections(allAdvertisers, allPartners, allCoupons)
    /\ pc = "changed"
    /\ CacheConstructed
    /\ AuthConstructed
    /\ ViewConstructed
    /\ ServiceConstructed
    /\ PageConstructed

RecomputeFilterDropdowns ==
    /\ pc = "changed"
    /\ Recompute(filters)
    /\ pc' = "resolved"
    /\ UNCHANGED <<allAdvertisers, allPartners, allCoupons, filters>>
    /\ UNCHANGED <<cacheVars, authVars, viewVars, serviceVars, pageVars, requestVars>>

ClearAdvertiserFilter ==
    /\ pc = "resolved"
    /\ filters' = [filters EXCEPT !.advertiser_id = NullField]
    /\ Recompute(filters')
    /\ UNCHANGED <<allAdvertisers, allPartners, allCoupons, pc>>
    /\ UNCHANGED <<cacheVars, authVars, viewVars, serviceVars, pageVars, requestVars>>

ClearPartnerFilter ==
    /\ pc = "resolved"
    /\ filters' = [filters EXCEPT !.partner_id = NullField]
    /\ Recompute(filters')
    /\ UNCHANGED <<allAdvertisers, allPartners, allCoupons, pc>>
    /\ UNCHANGED <<cacheVars, authVars, viewVars, serviceVars, pageVars, requestVars>>

ClearCouponFilter ==
    /\ pc = "resolved"
    /\ filters' = [filters EXCEPT !.coupon_code = NullField]
    /\ Recompute(filters')
    /\ UNCHANGED <<allAdvertisers, allPartners, allCoupons, pc>>
    /\ UNCHANGED <<cacheVars, authVars, viewVars, serviceVars, pageVars, requestVars>>

NextResolver ==
    \/ RecomputeFilterDropdowns
    \/ ClearAdvertiserFilter
    \/ ClearPartnerFilter
    \/ ClearCouponFilter

SpecResolver == InitResolver /\ [][NextResolver]_vars

(***************************************************************************)
(* Vocabulary of the properties of the option lists.                       *)
(***************************************************************************)
\* the values selected in a multi-valued field
Selected(field) == Range(field.vals)

\* a multi-valued field that holds no selection
Inactive(field) ==
    \/ field.tag \in {"null", "undefined"}
    \/ field.tag = "array" /\ field.vals = <<>>

DepartmentInactive(t) == t \in {NullString, UndefinedString, ""}

NoSelection(f) ==
    /\ Inactive(f.advertiser_id)
    /\ Inactive(f.partner_id)
    /\ Inactive(f.coupon_code)
    /\ DepartmentInactive(f.partner_type)

OnlyAdvertiserSelected(f) ==
    /\ ~Inactive(f.advertiser_id)
    /\ Inactive(f.partner_id)
    /\ Inactive(f.coupon_code)
    /\ DepartmentInactive(f.partner_type)

OnlyPartnerSelected(f) ==
    /\ Inactive(f.advertiser_id)
    /\ ~Inactive(f.partner_id)
    /\ Inactive(f.coupon_code)
    /\ DepartmentInactive(f.partner_type)

OnlyCouponSelected(f) ==
    /\ Inactive(f.advertiser_id)
    /\ Inactive(f.partner_id)
    /\ ~Inactive(f.coupon_code)
    /\ DepartmentInactive(f.partner_type)

Ids(list) == {x.id : x \in Range(list)}

\* the sub-list of the master list all that holds the entries satisfying keep
SubList(all, keep(_)) == Filter(all, [x \in Range(all) |-> keep(x)])

(***************************************************************************)
(* C1: after recomputeFilterDropdowns every option list contains the       *)
(* values selected in its own dimension: each selected advertiser id is    *)
(* listed in advertisers, each selected partner id in partners, and every  *)
(* catalog coupon with a selected code in coupons.                         *)
(***************************************************************************)
C1_SelectionStaysListed ==
    pc = "resolved" =>
        /\ Selected(filters.advertiser_id) \subseteq Ids(advertisers)
        /\ Selected(filters.partner_id) \subseteq Ids(partners)
        /\ \A c \in Range(allCoupons) :
              c.code \in Selected(filters.coupon_code) => c \in Range(coupons)

\* a selected advertiser that no coupon of the selected partner carries
C1_Witness ==
    /\ pc = "resolved"
    /\ \E a \in Selected(filters.advertiser_id), p \in Selected(filters.partner_id) :
          /\ \A c \in Range(allCoupons) : ~(c.advertiser_id = a /\ c.partner_id = p)
          /\ a \in Ids(advertisers)
          /\ p \in Ids(partners)
    /\ Selected(filters.coupon_code) # {}

(***************************************************************************)
(* C2: when no advertiser, partner, coupon or department filter is active  *)
(* (null, undefined, empty array, empty department string), the option     *)
(* lists equal the master lists, same elements in the same order.          *)
(***************************************************************************)
C2_NoSelectionFullCatalog ==
    (pc = "resolved" /\ NoSelection(filters)) =>
        /\ advertisers = allAdvertisers
        /\ partners = allPartners
        /\ coupons = allCoupons

\* empty arrays and the empty department string, with an advertiser and a
\* partner that no coupon carries
C2_Witness ==
    /\ pc = "resolved"
    /\ filters.advertiser_id = ArrayField(<<>>)
    /\ filters.partner_id = ArrayField(<<>>)
    /\ filters.coupon_code = ArrayField(<<>>)
    /\ filters.partner_type = ""
    /\ Len(allCoupons) = 1
    /\ advertisers = allAdvertisers
    /\ Len(advertisers) = NumAdvertisers

(***************************************************************************)
(* C3 (as claimed): the option list of a dimension depends on the          *)
(* dimension's own selection only through the union of the selected        *)
(* values: options(S) = options(S with the own selection cleared) united   *)
(* with the selected catalog entries.                                      *)
(***************************************************************************)
C3_OwnSelectionOnlyUnion ==
    pc = "resolved" =>
        /\ LET cleared == ResolveAdvertisers([filters EXCEPT !.advertiser_id = NullField],
                                             allAdvertisers, allCoupons)
               keep(a) == a \in Range(cleared) \/ a.id \in Selected(filters.advertiser_id)
           IN advertisers = SubList(allAdvertisers, keep)
        /\ LET cleared == ResolvePartners([filters EXCEPT !.partner_id = NullField],
                                          allPartners, allCoupons)
               keep(p) == p \in Range(cleared) \/ p.id \in Selected(filters.partner_id)
           IN partners = SubList(allPartners, keep)
        /\ LET cleared == ResolveCoupons([filters EXCEPT !.coupon_code = NullField], allCoupons)
               keep(c) == c \in Range(cleared) \/ c.code \in Selected(filters.coupon_code)
           IN coupons = SubList(allCoupons, keep)

(***************************************************************************)
(* C3 (amended): the equation holds whenever a filter other than the       *)
(* dimension's own is active; when the own selection is the only active    *)
(* filter, the list holds the selected entries and the entries that occur  *)
(* in a coupon of the catalog.                                             *)
(***************************************************************************)
C3_OwnSelectionAmended ==
    pc = "resolved" =>
        /\ IF OnlyAdvertiserSelected(filters)
           THEN LET keep(a) == \/ a.id \in Selected(filters.advertiser_id)
                               \/ \E c \in Range(allCoupons) : c.advertiser_id = a.id
                IN advertisers = SubList(allAdvertisers, keep)
           ELSE LET cleared == ResolveAdvertisers([filters EXCEPT !.advertiser_id = NullField],
                                                  allAdvertisers, allCoupons)
                    keep(a) == a \in Range(cleared) \/ a.id \in Selected(filters.advertiser_id)
                IN advertisers = SubList(allAdvertisers, keep)
        /\ IF OnlyPartnerSelected(filters)
           THEN LET keep(p) == \/ p.id \in Selected(filters.partner_id)
                               \/ \E c \in Range(allCoupons) : c.partner_id = p.id
                IN partners = SubList(allPartners, keep)
           ELSE LET cleared == ResolvePartners([filters EXCEPT !.partner_id = NullField],
                                               allPartners, allCoupons)
                    keep(p) == p \in Range(cleared) \/ p.id \in Selected(filters.partner_id)
                IN partners = SubList(allPartners, keep)
        /\ LET cleared == ResolveCoupons([filters EXCEPT !.coupon_code = NullField], allCoupons)
               keep(c) == c \in Range(cleared) \/ c.code \in Selected(filters.coupon_code)
           IN coupons = SubList(allCoupons, keep)

\* a partner filter is active and the selected advertiser has no coupon of it
C3_Witness ==
    /\ pc = "resolved"
    /\ ~Inactive(filters.partner_id)
    /\ ~Inactive(filters.advertiser_id)
    /\ Len(advertisers) < Len(allAdvertisers)
    /\ \E a \in Selected(filters.advertiser_id) :
          \A c \in Range(allCoupons) : c.advertiser_id # a

(***************************************************************************)
(* C4: coupon options are derived per compound key (code, advertiser_id):  *)
(* with two coupons of one code under the advertisers A1 and A2 and only   *)
(* advertiser A1 selected, the coupon options hold the (code, A1) coupon   *)
(* and not the (code, A2) coupon.                                          *)
(***************************************************************************)
C4_CouponOptionsPerCompoundKey ==
    (pc = "resolved" /\ OnlyAdvertiserSelected(filters)) =>
        \A c1, c2 \in Range(allCoupons) :
            ( /\ c1.code = c2.code
              /\ c1.advertiser_id # c2.advertiser_id
              /\ Selected(filters.advertiser_id) = {c1.advertiser_id} )
            => (c1 \in Range(coupons) /\ c2 \notin Range(coupons))

(***************************************************************************)
(* C5: with one coupon code selected (and nothing else) while the catalog  *)
(* holds that code under two advertisers, the advertiser options hold the  *)
(* advertiser of the selected coupon only: they never list both            *)
(* advertisers that share the code.                                        *)
(***************************************************************************)
C5_AdvertisersOfSelectedCouponOnly ==
    (pc = "resolved" /\ OnlyCouponSelected(filters)) =>
        \A c1, c2 \in Range(allCoupons) :
            ( /\ c1.code = c2.code
              /\ c1.advertiser_id # c2.advertiser_id
              /\ Selected(filters.coupon_code) = {c1.code} )
            => ~({c1.advertiser_id, c2.advertiser_id} \subseteq Ids(advertisers))

(***************************************************************************)
(* C6 (as claimed): a coupon without partner_id never contributes a value  *)
(* to the partner options, and whenever no partner filter is active it     *)
(* contributes its advertiser to the advertiser options and itself to the  *)
(* coupon options.                                                         *)
(***************************************************************************)
\* every listed partner is selected or carried by a coupon with a partner
\* (when some filter is active: otherwise the list is the master list)
PartnersFromAssignedCoupons ==
    (pc = "resolved" /\ ~NoSelection(filters)) =>
        \A p \in Range(partners) :
            \/ p.id \in Selected(filters.partner_id)
            \/ \E c \in Range(allCoupons) : c.partner_id # NoPartner /\ c.partner_id = p.id

C6_UnassignedCouponCounts ==
    /\ PartnersFromAssignedCoupons
    /\ (pc = "resolved" /\ Inactive(filters.partner_id)) =>
          \A c \in Range(allCoupons) :
              c.partner_id = NoPartner =>
                  (c.advertiser_id \in Ids(advertisers) /\ c \in Range(coupons))

(***************************************************************************)
(* C6 (amended): a coupon without partner_id never contributes a value to  *)
(* the partner options; whenever no partner filter is active and the       *)
(* coupon passes the other active filters, it contributes its advertiser   *)
(* to the advertiser options (department and coupon-code filters) and      *)
(* itself to the coupon options (department and advertiser filters).       *)
(***************************************************************************)
PassesDepartment(c, f) ==
    DepartmentInactive(f.partner_type) \/ c.partner_type = f.partner_type

PassesCouponCode(c, f) ==
    Inactive(f.coupon_code) \/ c.code \in Selected(f.coupon_code)

PassesAdvertiser(c, f) ==
    Inactive(f.advertiser_id) \/ c.advertiser_id \in Selected(f.advertiser_id)

C6_UnassignedCouponCountsAmended ==
    /\ PartnersFromAssignedCoupons
    /\ (pc = "resolved" /\ Inactive(filters.partner_id)) =>
          \A c \in Range(allCoupons) :
              c.partner_id = NoPartner =>
                  /\ (PassesDepartment(c, filters) /\ PassesCouponCode(c, filters))
                        => c.advertiser_id \in Ids(advertisers)
                  /\ (PassesDepartment(c, filters) /\ PassesAdvertiser(c, filters))
                        => c \in Range(coupons)

\* a coupon filter is active; the only coupon of an advertiser has no
\* partner: the advertiser is listed, no partner is
C6_Witness ==
    /\ pc = "resolved"
    /\ OnlyCouponSelected(filters)
    /\ \E c \in Range(allCoupons) :
          /\ c.partner_id = NoPartner
          /\ c.code \in Selected(filters.coupon_code)
          /\ \A d \in Range(allCoupons) : d.advertiser_id = c.advertiser_id => d = c
          /\ c.advertiser_id \in Ids(advertisers)
          /\ c \in Range(coupons)
    /\ \A c \in Range(allCoupons) : c.partner_id = NoPartner
    /\ partners = <<>>

(***************************************************************************)
(* C7: with only an advertiser selection active, the partner options are   *)
(* exactly the partners that have a coupon of a selected advertiser and    *)
(* the coupon options exactly the coupons of the selected advertisers;     *)
(* clearing the advertiser selection restores the three full lists.        *)
(***************************************************************************)
C7_AdvertiserSelectionNarrows ==
    (pc = "resolved" /\ OnlyAdvertiserSelected(filters)) =>
        /\ LET keep(p) == \E c \in Range(allCoupons) :
                              /\ c.partner_id = p.id
                              /\ c.advertiser_id \in Selected(filters.advertiser_id)
           IN partners = SubList(allPartners, keep)
        /\ LET keep(c) == c.advertiser_id \in Selected(filters.advertiser_id)
           IN coupons = SubList(allCoupons, keep)

C7_ClearRestores ==
    (OnlyAdvertiserSelected(filters) /\ ClearAdvertiserFilter) =>
        /\ advertisers' = allAdvertisers
        /\ partners' = allPartners
        /\ coupons' = allCoupons

C7_AdvertiserSelectionRoundTrip ==
    [](C7_AdvertiserSelectionNarrows) /\ [][C7_ClearRestores]_vars

(***************************************************************************)
(* CacheService.                                                           *)
(***************************************************************************)
\* the component state of a session that has not loaded its dashboard
DashboardConstructed ==
    /\ allAdvertisers = <<>>
    /\ allPartners = <<>>
    /\ allCoupons = <<>>
    /\ advertisers = <<>>
    /\ partners = <<>>
    /\ coupons = <<>>
    /\ filters = [advertiser_id |-> UndefinedField, partner_id |-> UndefinedField,
                  coupon_code |-> UndefinedField, partner_type |-> UndefinedString]
    /\ pc = "resolved"

\* variant: an entry is still served at the instant timestamp + ttl
CacheValid_Inclusive(k) ==
    cache[k].present /\ now - cache[k].timestamp <= cache[k].ttl

\* cached && Date.now() - cached.timestamp < cached.ttl
CacheValid(k) ==
    cache[k].present /\ now - cache[k].timestamp < cache[k].ttl

\* variant: the in-flight map is not consulted
HasRequest_Never(k) == FALSE

\* this.requests.has(key)
HasRequest(k) == requests[k] # NoRequest

\* request.pipe(tap(...), shareReplay(1)) before anyone subscribed;
\* active counts the executions of the request that have not settled
NewObservable(k, ttl) ==
    [key |-> k, ttl |-> ttl, state |-> "cold", active |-> 0]

\* variant: without shareReplay every subscriber runs the request
StartsRequest_Always(o) == o.state # "done"

\* shareReplay(1): a subscriber connects the source when no connection
\* exists: before the first subscriber, and after an error reset it
StartsRequest(o) == o.state \in {"cold", "reset"}

\* get(key, request, ttl) called by c: the observable it returns
Get(c, k, ttl) ==
    /\ callers[c].pc = "idle"
    /\ IF CacheValid(k)
       THEN /\ callers' = [callers EXCEPT ![c] =
                   [pc |-> "holding", src |-> "of", id |-> 0, data |-> cache[k].data]]
            /\ UNCHANGED <<requests, obs>>
       ELSE IF HasRequest(k)
       THEN /\ callers' = [callers EXCEPT ![c] =
                   [pc |-> "holding", src |-> "obs", id |-> requests[k], data |-> 0]]
            /\ UNCHANGED <<requests, obs>>
       ELSE /\ Len(obs) < MaxObs
            /\ obs' = Append(obs, NewObservable(k, ttl))
            /\ requests' = [requests EXCEPT ![k] = Len(obs) + 1]
            /\ callers' = [callers EXCEPT ![c] =
                   [pc |-> "holding", src |-> "obs", id |-> Len(obs) + 1, data |-> 0]]
    /\ UNCHANGED <<cache, now>>
    /\ UNCHANGED <<dashVars, authVars, viewVars, serviceVars, pageVars, requestVars>>

\* the caller subscribes to the observable get returned
Subscribe(c) ==
    /\ callers[c].pc = "holding"
    /\ IF callers[c].src = "of"
       THEN \* of(cached.data) emits at once and completes
            /\ callers' = [callers EXCEPT ![c] = IdleCaller]
            /\ UNCHANGED obs
       ELSE LET id == callers[c].id
                o == obs[id]
            IN IF o.state = "done"
               THEN \* the ReplaySubject replays the response
                    /\ callers' = [callers EXCEPT ![c] = IdleCaller]
                    /\ UNCHANGED obs
               ELSE IF StartsRequest(o)
               THEN /\ o.active < MaxRuns
                    /\ obs' = [obs EXCEPT ![id].state = "running", ![id].active = o.active + 1]
                    /\ callers' = [callers EXCEPT ![c].pc = "waiting"]
               ELSE /\ callers' = [callers EXCEPT ![c].pc = "waiting"]
                    /\ UNCHANGED obs
    /\ UNCHANGED <<cache, requests, now>>
    /\ UNCHANGED <<dashVars, authVars, viewVars, serviceVars, pageVars, requestVars>>

\* the subscribers of observable id that wait for its outcome
Waiting(id) ==
    {c \in Callers : callers[c].pc = "waiting" /\ callers[c].id = id}

\* the request of observable id succeeds: tap stores the entry and deletes
\* the registration of the key, the subscribers receive the response
Respond(id) ==
    /\ id \in DOMAIN obs
    /\ obs[id].active > 0
    /\ cache' = [cache EXCEPT ![obs[id].key] = Entry(id, now, obs[id].ttl)]
    /\ requests' = [requests EXCEPT ![obs[id].key] = NoRequest]
    /\ obs' = [obs EXCEPT ![id].state = "done", ![id].active = obs[id].active - 1]
    /\ callers' = [c \in Callers |-> IF c \in Waiting(id) THEN IdleCaller ELSE callers[c]]
    /\ UNCHANGED now
    /\ UNCHANGED <<dashVars, authVars, viewVars, serviceVars, pageVars, requestVars>>

\* the request of observable id fails: tap is skipped, the subscribers
\* receive the error and shareReplay resets its connection
Fail(id) ==
    /\ id \in DOMAIN obs
    /\ obs[id].active > 0
    /\ obs' = [obs EXCEPT ![id].state = "reset", ![id].active = obs[id].active - 1]
    /\ callers' = [c \in Callers |-> IF c \in Waiting(id) THEN IdleCaller ELSE callers[c]]
    /\ UNCHANGED <<cache, requests, now>>
    /\ UNCHANGED <<dashVars, authVars, viewVars, serviceVars, pageVars, requestVars>>

\* set(key, data, ttl)
Set(k, ttl) ==
    /\ cache' = [cache EXCEPT ![k] = Entry(DirectData, now, ttl)]
    /\ UNCHANGED <<requests, obs, now, callers>>
    /\ UNCHANGED <<dashVars, authVars, viewVars, serviceVars, pageVars, requestVars>>

\* variant: invalidate clears both maps, as invalidateAll does
Invalidate_AllKeys(k) ==
    /\ cache' = [j \in Keys |-> NoEntry]
    /\ requests' = [j \in Keys |-> NoRequest]
    /\ UNCHANGED <<obs, now, callers>>
    /\ UNCHANGED <<dashVars, authVars, viewVars, serviceVars, pageVars, requestVars>>

\* invalidate(key)
Invalidate(k) ==
    /\ cache' = [cache EXCEPT ![k] = NoEntry]
    /\ requests' = [requests EXCEPT ![k] = NoRequest]
    /\ UNCHANGED <<obs, now, callers>>
    /\ UNCHANGED <<dashVars, authVars, viewVars, serviceVars, pageVars, requestVars>>

\* invalidateAll()
InvalidateAll ==
    /\ cache' = [k \in Keys |-> NoEntry]
    /\ requests' = [k \in Keys |-> NoRequest]
    /\ UNCHANGED <<obs, now, callers>>
    /\ UNCHANGED <<dashVars, authVars, viewVars, serviceVars, pageVars, requestVars>>

\* the clock Date.now() advances
Tick ==
    /\ now < MaxTime
    /\ now' = now + 1
    /\ UNCHANGED <<cache, requests, obs, callers>>
    /\ UNCHANGED <<dashVars, authVars, viewVars, serviceVars, pageVars, requestVars>>

InitCache ==
    /\ DashboardConstructed
    /\ CacheConstructed
    /\ AuthConstructed
    /\ ViewConstructed
    /\ ServiceConstructed
    /\ PageConstructed

NextCache ==
    \/ \E c \in Callers, k \in Keys, ttl \in TTLs : Get(c, k, ttl)
    \/ \E c \in Callers : Subscribe(c)
    \/ \E id \in 1..MaxObs : Respond(id)
    \/ \E id \in 1..MaxObs : Fail(id)
    \/ \E k \in Keys, ttl \in TTLs : Set(k, ttl)
    \/ \E k \in Keys : Invalidate(k)
    \/ InvalidateAll
    \/ Tick

SpecCache == InitCache /\ [][NextCache]_vars

(***************************************************************************)
(* Vocabulary of the properties of CacheService.                           *)
(***************************************************************************)
\* the entry of k has not reached timestamp + ttl
Fresh(k) == cache[k].present /\ now < cache[k].timestamp + cache[k].ttl

\* the entry of k has reached timestamp + ttl
Expired(k) == cache[k].present /\ now >= cache[k].timestamp + cache[k].ttl

\* a first get has registered a fetch for k that has not settled
Unsettled(k) ==
    /\ requests[k] # NoRequest
    /\ obs[requests[k]].state \in {"cold", "running"}

\* c calls get for k
GetBy(c, k) == \E ttl \in TTLs : Get(c, k, ttl)

\* the executions of a request for k that have not settled
Outstanding(k) == {id \in DOMAIN obs : obs[id].key = k /\ obs[id].active > 0}

\* no observable runs its request more than once at a time
SingleExecution == \A id \in DOMAIN obs : obs[id].active <= 1

(***************************************************************************)
(* C8: a get for a key whose first fetch is registered and has not         *)
(* settled, with no valid entry, returns the observable the first get      *)
(* registered and creates no other; the callers waiting on that observable *)
(* share one execution of the request.                                     *)
(***************************************************************************)
C8_SecondGetStep ==
    \A c \in Callers, k \in Keys :
        (GetBy(c, k) /\ ~Fresh(k) /\ Unsettled(k)) =>
            /\ callers'[c].src = "obs"
            /\ callers'[c].id = requests[k]
            /\ obs' = obs
            /\ requests' = requests

C8_OneExecutionShared ==
    \A id \in DOMAIN obs : Waiting(id) # {} => obs[id].active = 1

C8_ConcurrentGetsShareOneFetch ==
    [][C8_SecondGetStep]_vars /\ [](C8_OneExecutionShared)

\* two callers wait on the same registered observable, whose request runs once
C8_Witness ==
    \E c1, c2 \in Callers :
        /\ c1 # c2
        /\ callers[c1].pc = "waiting"
        /\ callers[c2].pc = "waiting"
        /\ callers[c1].id = callers[c2].id
        /\ requests[obs[callers[c1].id].key] = callers[c1].id
        /\ obs[callers[c1].id].active = 1
        /\ ~cache[obs[callers[c1].id].key].present

(***************************************************************************)
(* C9: in every reachable state, under any interleaving of get, set,       *)
(* invalidate, invalidateAll and fetch completions, at most one fetch per  *)
(* key is outstanding.                                                     *)
(***************************************************************************)
C9_AtMostOneOutstandingPerKey ==
    \A k \in Keys : Cardinality(Outstanding(k)) <= 1 /\ SingleExecution

(***************************************************************************)
(* C10: an entry stored at time t with time-to-live ttl is returned by     *)
(* every get at a time < t + ttl and no request is executed for it; a get  *)
(* at a time >= t + ttl returns the registered fetch of the key, creating  *)
(* it when none is registered, the gets that arrive before it settles      *)
(* share its one execution, and its response replaces the entry.           *)
(***************************************************************************)
C10_GetStep ==
    \A c \in Callers, k \in Keys :
        (GetBy(c, k) /\ cache[k].present) =>
            IF now < cache[k].timestamp + cache[k].ttl
            THEN /\ callers'[c].src = "of"
                 /\ callers'[c].data = cache[k].data
                 /\ obs' = obs
                 /\ requests' = requests
            ELSE /\ callers'[c].src = "obs"
                 /\ callers'[c].id = requests'[k]
                 /\ IF requests[k] # NoRequest
                    THEN obs' = obs /\ requests' = requests
                    ELSE /\ obs' = Append(obs, NewObservable(k, obs'[Len(obs')].ttl))
                         /\ requests'[k] = Len(obs')

C10_SubscribeStep ==
    \A c \in Callers :
        Subscribe(c) =>
            /\ callers[c].src = "of" => obs' = obs
            /\ (callers[c].src = "obs" /\ obs[callers[c].id].state = "running") => obs' = obs

C10_RespondStep ==
    \A id \in DOMAIN obs :
        Respond(id) => cache'[obs[id].key] = Entry(id, now, obs[id].ttl)

C10_TtlContract ==
    /\ [][C10_GetStep /\ C10_SubscribeStep /\ C10_RespondStep]_vars
    /\ [](SingleExecution)

\* an entry written by a response has expired and two callers wait on the
\* one re-fetch registered for its key
C10_Witness ==
    \E k \in Keys, c1, c2 \in Callers :
        /\ Expired(k)
        /\ cache[k].data # DirectData
        /\ c1 # c2
        /\ callers[c1].pc = "waiting"
        /\ callers[c2].pc = "waiting"
        /\ callers[c1].id = requests[k]
        /\ callers[c2].id = requests[k]
        /\ obs[requests[k]].active = 1
        /\ Cardinality(Outstanding(k)) = 1
(***************************************************************************)
(* C11: when a fetch started by get fails, the registration of that fetch  *)
(* is removed from the in-flight map and the entry of its key is neither   *)
(* written nor changed, so no registered observable is one whose request   *)
(* has failed.                                                             *)
(***************************************************************************)
C11_FailStep ==
    \A id \in DOMAIN obs :
        Fail(id) =>
            /\ requests'[obs[id].key] # id
            /\ cache'[obs[id].key] = cache[obs[id].key]

C11_NoFailedRegistration ==
    \A k \in Keys : requests[k] # NoRequest => obs[requests[k]].state # "reset"

C11_FailureClearsRegistration ==
    [][C11_FailStep]_vars /\ [](C11_NoFailedRegistration)

(***************************************************************************)
(* C12: invalidate(key) removes the entry and the registration of that key *)
(* and leaves the entry and the registration of every other key as they    *)
(* were; invalidateAll() leaves both maps empty.                           *)
(***************************************************************************)
C12_InvalidateStep ==
    \A k \in Keys :
        Invalidate(k) =>
            /\ cache'[k] = NoEntry
            /\ requests'[k] = NoRequest
            /\ \A j \in Keys \ {k} :
                    cache'[j] = cache[j] /\ requests'[j] = requests[j]

C12_InvalidateAllStep ==
    InvalidateAll =>
        \A k \in Keys : cache'[k] = NoEntry /\ requests'[k] = NoRequest

C12_InvalidateFrame ==
    [][C12_InvalidateStep /\ C12_InvalidateAllStep]_vars

\* the running fetch of one key has lost its registration and the key has no
\* entry, while another key keeps its entry and its registration
C12_Witness ==
    \E k, j \in Keys :
        /\ k # j
        /\ ~cache[k].present
        /\ requests[k] = NoRequest
        /\ \E id \in DOMAIN obs : obs[id].key = k /\ obs[id].state = "running"
        /\ cache[j].present
        /\ requests[j] # NoRequest
(***************************************************************************)
(* Sessions: AuthService and the root-provided CacheService, which lives   *)
(* as long as the page. DashboardService calls get for the signed-in user. *)
(***************************************************************************)
Users == 1..NumUsers

\* login(credentials) succeeds: tokens stored, the signal set, the idle timer
\* armed, the user context stored as the current user
Login(u) ==
    /\ ~isAuthenticated
    /\ isAuthenticated' = TRUE
    /\ currentUser' = u
    /\ idleTimer' = TRUE
    /\ localStorage' = StorageOf(u)
    /\ UNCHANGED routerUrl
    /\ UNCHANGED <<dashVars, cacheVars, viewVars, serviceVars, pageVars, requestVars>>

\* clearAuth(): the stored tokens and user removed, both signals reset
ClearAuth ==
    /\ localStorage' = EmptyStorage
    /\ isAuthenticated' = FALSE
    /\ currentUser' = NoUser

\* logout()
Logout ==
    /\ isAuthenticated
    /\ idleTimer' = FALSE
    /\ ClearAuth
    /\ routerUrl' = "/login"
    /\ UNCHANGED <<dashVars, cacheVars, viewVars, serviceVars, pageVars, requestVars>>

\* handleSessionExpired(), called by the interceptor on a 401/403
HandleSessionExpired ==
    /\ isAuthenticated
    /\ ClearAuth
    /\ routerUrl' = "/login"
    /\ UNCHANGED idleTimer
    /\ UNCHANGED <<dashVars, cacheVars, viewVars, serviceVars, pageVars, requestVars>>

\* the idle timeout fires: logout()
IdleTimeout ==
    /\ idleTimer
    /\ idleTimer' = FALSE
    /\ ClearAuth
    /\ routerUrl' = "/login"
    /\ UNCHANGED <<dashVars, cacheVars, viewVars, serviceVars, pageVars, requestVars>>

\* getDashboardContext / getFilterOptions / get*List of the signed-in user
SessionGet(c, k, ttl) == isAuthenticated /\ Get(c, k, ttl)

InitSession == InitCache

NextSession ==
    \/ \E u \in Users : Login(u)
    \/ Logout
    \/ HandleSessionExpired
    \/ IdleTimeout
    \/ \E c \in Callers, k \in Keys, ttl \in TTLs : SessionGet(c, k, ttl)
    \/ \E c \in Callers : Subscribe(c)
    \/ \E id \in 1..MaxObs : Respond(id)
    \/ \E id \in 1..MaxObs : Fail(id)
    \/ Tick

SpecSession == InitSession /\ [][NextSession]_vars

(***************************************************************************)
(* C13: whenever no session is signed in (after a logout, a session expiry *)
(* or an idle timeout), the request cache holds no entry and no in-flight  *)
(* registration, so nothing cached in one session is left for the next.    *)
(***************************************************************************)
C13_SignedOutCacheEmpty ==
    ~isAuthenticated =>
        \A k \in Keys : ~cache[k].present /\ requests[k] = NoRequest
(***************************************************************************)
(* DashboardService: the request a selection sends, and its response.      *)
(* A response is identified by the parameters of its request.              *)
(***************************************************************************)
\* if (filters.partner_type): null, undefined and '' send no parameter
ParamString(t) == IF t \in {NullString, UndefinedString} THEN "" ELSE t

\* buildParams(filters): an array sends its elements in order, a scalar
\* itself, null and undefined nothing
BuildParams(f) ==
    [partner_type |-> ParamString(f.partner_type),
     advertiser_id |-> AsArray(f.advertiser_id),
     partner_id |-> AsArray(f.partner_id),
     coupon_code |-> AsArray(f.coupon_code)]

Pages == 1..NumPages

\* the keys of the forkJoin in loadData
Endpoints == {"kpis", "tableData", "pieChartData", "graphData"}

\* KPIData / GraphData / one PieChartData item answering the parameters q
Data(q) == [present |-> TRUE, params |-> q]

\* a TableRow of the page answering q
TableRow(q, page) == [params |-> q, page |-> page]

\* what forkJoin emits when the four requests for q and page have responded
Results(q, page) ==
    [kpis |-> Data(q),
     tableData |-> [count |-> NumPages, results |-> <<TableRow(q, page)>>],
     pieChartData |-> <<Data(q)>>,
     graphData |-> Data(q)]

\* the value catchError substitutes for a failed forkJoin
EmptyResults ==
    [kpis |-> NoData,
     tableData |-> [count |-> 0, results |-> <<>>],
     pieChartData |-> <<>>,
     graphData |-> NoData]

\* buildPieChart(rows), buildLineChart(graphData): the chart of the data
BuildPieChart(rows) == Data(rows[1].params)

BuildLineChart(g) == g

(***************************************************************************)
(* DashboardComponent: loadData and its subscription.                      *)
(***************************************************************************)
dataVars == <<kpis, tableData, totalRecords, graphData, lineChart, pieChart>>

masterVars == <<allAdvertisers, allPartners, allCoupons>>

\* the forkJoin subscription of one loadData call, with the parameters its
\* four requests were built with. forkJoin keeps the responses to itself until
\* the last one has arrived, so a subscription is outstanding until then.
NewBatch(q, page) == [params |-> q, page |-> page, state |-> "outstanding"]

\* a subscription that has delivered ("applied") or errored ("failed"): it is
\* closed and holds no request any more
ClosedBatch(state) == [params |-> NoParams, page |-> 1, state |-> state]

\* loadData() with the selection f and the page
LoadData(f, page) ==
    /\ Len(batches) < MaxBatches
    /\ loading' = TRUE
    /\ showSkeletons' = TRUE
    /\ batches' = Append(batches, NewBatch(BuildParams(f), page))
    /\ UNCHANGED dataVars

\* the next callback of the subscription
HandleResults(results) ==
    /\ kpis' = IF results.kpis.present THEN results.kpis ELSE kpis
    /\ totalRecords' = results.tableData.count
    /\ tableData' = results.tableData.results
    /\ pieChart' = IF Len(results.pieChartData) > 0
                   THEN BuildPieChart(results.pieChartData) ELSE pieChart
    /\ graphData' = IF results.graphData.present THEN results.graphData ELSE graphData
    /\ lineChart' = IF results.graphData.present
                    THEN BuildLineChart(results.graphData) ELSE lineChart
    /\ showSkeletons' = FALSE
    /\ loading' = FALSE

\* the last of the four requests of batch b responds: forkJoin emits
ForkJoinEmits(b) ==
    /\ b \in DOMAIN batches
    /\ batches[b].state = "outstanding"
    /\ HandleResults(Results(batches[b].params, batches[b].page))
    /\ batches' = [batches EXCEPT ![b] = ClosedBatch("applied")]
    /\ UNCHANGED <<dashVars, cacheVars, authVars, serviceVars, pageVars, requestVars>>
    /\ UNCHANGED <<currentPage, filterDebounceTimer, timeouts>>

\* variant: the error of forkJoin is not caught and no callback runs
FetchFails_Unhandled(b, e) ==
    /\ b \in DOMAIN batches
    /\ batches[b].state = "outstanding"
    /\ batches' = [batches EXCEPT ![b] = ClosedBatch("failed")]
    /\ UNCHANGED <<dataVars, loading, showSkeletons>>
    /\ UNCHANGED <<dashVars, cacheVars, authVars, serviceVars, pageVars, requestVars>>
    /\ UNCHANGED <<currentPage, filterDebounceTimer, timeouts>>

\* request e of batch b fails while forkJoin waits: forkJoin errors,
\* catchError substitutes the empty results and the next callback runs
FetchFails(b, e) ==
    /\ b \in DOMAIN batches
    /\ batches[b].state = "outstanding"
    /\ HandleResults(EmptyResults)
    /\ batches' = [batches EXCEPT ![b] = ClosedBatch("failed")]
    /\ UNCHANGED <<dashVars, cacheVars, authVars, serviceVars, pageVars, requestVars>>
    /\ UNCHANGED <<currentPage, filterDebounceTimer, timeouts>>

(***************************************************************************)
(* DashboardComponent: debouncing.                                         *)
(***************************************************************************)
\* DEBOUNCE_DELAY = 300 ms, in steps of 150 ms
DEBOUNCE_DELAY == 2

\* variant: the pending timer is not cleared
DebouncedLoadData_NoClear ==
    /\ timeouts' = Append(timeouts, DEBOUNCE_DELAY)
    /\ filterDebounceTimer' = "live"

\* debouncedLoadData(): the field refers to the timeout set last; clearTimeout
\* of a handle whose timeout has fired does nothing
DebouncedLoadData ==
    LET kept == IF filterDebounceTimer = "live"
                THEN SubSeq(timeouts, 1, Len(timeouts) - 1)
                ELSE timeouts
    IN /\ timeouts' = Append(kept, DEBOUNCE_DELAY)
       /\ filterDebounceTimer' = "live"

\* 150 ms pass; a timeout that is due runs before more time passes
TimePasses ==
    /\ Len(timeouts) > 0
    /\ \A i \in DOMAIN timeouts : timeouts[i] > 0
    /\ timeouts' = [i \in DOMAIN timeouts |-> timeouts[i] - 1]
    /\ UNCHANGED <<dashVars, cacheVars, authVars, serviceVars, pageVars, requestVars>>
    /\ UNCHANGED <<dataVars, loading, showSkeletons, currentPage,
                   filterDebounceTimer, batches>>

\* the timeout callback: loadData(); loadAnalytics()
TimerFires ==
    /\ Len(timeouts) > 0
    /\ Head(timeouts) = 0
    /\ timeouts' = Tail(timeouts)
    /\ filterDebounceTimer' =
           IF Len(timeouts) = 1 /\ filterDebounceTimer = "live"
           THEN "fired" ELSE filterDebounceTimer
    /\ LoadData(filters, currentPage)
    /\ UNCHANGED <<dashVars, cacheVars, authVars, serviceVars, pageVars, requestVars>>
    /\ UNCHANGED currentPage
(***************************************************************************)
(* DashboardComponent: the handlers that change the selection or the page. *)
(* loadAnalytics, which they call next to loadData, writes the analytics   *)
(* field only.                                                             *)
(***************************************************************************)
\* an empty array is normalised to null
NormalizeArray(v) ==
    IF v.tag = "array" /\ Len(v.vals) = 0 THEN NullField ELSE v

\* '' is normalised to null
NormalizeDepartment(t) == IF t = "" THEN NullString ELSE t

\* the values a multi-select writes into its field: nothing selected, or one
\* of the ids picked
MultiSelectValues(ids) == {ArrayField(<<>>)} \cup {ArrayField(<<x>>) : x \in ids}

\* the options picked in the multi-selects
AdvertiserPicks == {1}
PartnerPicks == {}
CouponPicks == {}

\* the values the department dropdown writes into partner_type
DepartmentSelectValues == {"", "MB"}

\* filters = {}
NoFilters ==
    [advertiser_id |-> UndefinedField, partner_id |-> UndefinedField,
     coupon_code |-> UndefinedField, partner_type |-> UndefinedString]

\* what a realtime handler leaves alone
RealtimeFrame ==
    /\ UNCHANGED <<masterVars, pc>>
    /\ UNCHANGED <<dataVars, loading, showSkeletons, currentPage, batches>>
    /\ UNCHANGED <<cacheVars, authVars, serviceVars, pageVars, requestVars>>

\* variant: the master lists are narrowed together with the option lists
DirectFrame_MastersNarrowed ==
    /\ allAdvertisers' = advertisers'
    /\ allPartners' = partners'
    /\ allCoupons' = coupons'
    /\ UNCHANGED pc
    /\ UNCHANGED <<filterDebounceTimer, timeouts>>
    /\ UNCHANGED <<cacheVars, authVars, serviceVars, pageVars, requestVars>>

\* what a handler that calls loadData at once leaves alone
DirectFrame ==
    /\ UNCHANGED <<masterVars, pc>>
    /\ UNCHANGED <<filterDebounceTimer, timeouts>>
    /\ UNCHANGED <<cacheVars, authVars, serviceVars, pageVars, requestVars>>

OnDepartmentChangeRealtime(t) ==
    /\ pc = "resolved"
    /\ filters' = [filters EXCEPT !.partner_type = NormalizeDepartment(t)]
    /\ Recompute(filters')
    /\ DebouncedLoadData
    /\ RealtimeFrame

OnAdvertiserChangeRealtime(v) ==
    /\ pc = "resolved"
    /\ filters' = [filters EXCEPT !.advertiser_id = NormalizeArray(v)]
    /\ Recompute(filters')
    /\ DebouncedLoadData
    /\ RealtimeFrame

OnPartnerChangeRealtime(v) ==
    /\ pc = "resolved"
    /\ filters' = [filters EXCEPT !.partner_id = NormalizeArray(v)]
    /\ Recompute(filters')
    /\ DebouncedLoadData
    /\ RealtimeFrame

OnCouponChangeRealtime(v) ==
    /\ pc = "resolved"
    /\ filters' = [filters EXCEPT !.coupon_code = NormalizeArray(v)]
    /\ Recompute(filters')
    /\ DebouncedLoadData
    /\ RealtimeFrame

\* removeFilter(filterType); the date fields are not part of the selection
\* modelled here
RemoveFilter(filterType) ==
    /\ pc = "resolved"
    /\ filters' =
           CASE filterType = "department" -> [filters EXCEPT !.partner_type = UndefinedString]
             [] filterType = "advertiser" -> [filters EXCEPT !.advertiser_id = UndefinedField]
             [] filterType = "partner" -> [filters EXCEPT !.partner_id = UndefinedField]
             [] filterType = "coupon" -> [filters EXCEPT !.coupon_code = UndefinedField]
             [] OTHER -> filters
    /\ Recompute(filters')
    /\ LoadData(filters', currentPage)
    /\ UNCHANGED currentPage
    /\ DirectFrame

ClearDepartmentFilter ==
    /\ pc = "resolved"
    /\ filters' = [filters EXCEPT !.partner_type = NullString]
    /\ Recompute(filters')
    /\ LoadData(filters', currentPage)
    /\ UNCHANGED currentPage
    /\ DirectFrame

ClearFilters ==
    /\ pc = "resolved"
    /\ filters' = NoFilters
    /\ advertisers' = allAdvertisers
    /\ partners' = allPartners
    /\ coupons' = allCoupons
    /\ LoadData(filters', currentPage)
    /\ UNCHANGED currentPage
    /\ DirectFrame

\* applyFilters(): the date range is not part of the selection modelled here
ApplyFilters ==
    /\ pc = "resolved"
    /\ currentPage' = 1
    /\ LoadData(filters, currentPage')
    /\ UNCHANGED <<filters, advertisers, partners, coupons>>
    /\ DirectFrame

OnPageChange(page) ==
    /\ pc = "resolved"
    /\ currentPage' = page
    /\ LoadData(filters, currentPage')
    /\ UNCHANGED <<filters, advertisers, partners, coupons>>
    /\ DirectFrame

\* ngOnInit: the deferred first loadData()
NgOnInit ==
    /\ pc = "constructed"
    /\ pc' = "resolved"
    /\ LoadData(filters, currentPage)
    /\ UNCHANGED <<masterVars, filters, advertisers, partners, coupons>>
    /\ UNCHANGED <<currentPage, filterDebounceTimer, timeouts>>
    /\ UNCHANGED <<cacheVars, authVars, serviceVars, pageVars, requestVars>>

\* the filter options the dashboard of this specification has loaded
ViewCatalog == <<OptionCoupon(1, 1, 1), OptionCoupon(2, 2, NoPartner)>>

\* a signed-in user opens the dashboard
InitView ==
    /\ allAdvertisers = MasterAdvertisers(OptionAdvertisers)
    /\ allPartners = MasterPartners(OptionPartners)
    /\ allCoupons = MasterCoupons(ViewCatalog)
    /\ advertisers = allAdvertisers
    /\ partners = allPartners
    /\ coupons = allCoupons
    /\ filters = NoFilters
    /\ pc = "constructed"
    /\ CacheConstructed
    /\ isAuthenticated = TRUE
    /\ currentUser = 1
    /\ idleTimer = TRUE
    /\ localStorage = StorageOf(1)
    /\ routerUrl = "/dashboard"
    /\ loginCall = NoLogin
    /\ intercepted = NoRequestIntercepted
    /\ ViewConstructed
    /\ ServiceConstructed
    /\ PageConstructed

NextView ==
    \/ NgOnInit
    \/ \E t \in DepartmentSelectValues : OnDepartmentChangeRealtime(t)
    \/ \E v \in MultiSelectValues(AdvertiserPicks) : OnAdvertiserChangeRealtime(v)
    \/ \E v \in MultiSelectValues(PartnerPicks) : OnPartnerChangeRealtime(v)
    \/ \E v \in MultiSelectValues(CouponPicks) : OnCouponChangeRealtime(v)
    \/ \E t \in {"department", "advertiser", "partner", "coupon", "date"} : RemoveFilter(t)
    \/ ClearDepartmentFilter
    \/ ClearAdvertiserFilter
    \/ ClearPartnerFilter
    \/ ClearCouponFilter
    \/ ClearFilters
    \/ ApplyFilters
    \/ \E page \in Pages : OnPageChange(page)
    \/ TimePasses
    \/ TimerFires
    \/ \E b \in 1..MaxBatches : ForkJoinEmits(b)
    \/ \E b \in 1..MaxBatches, e \in Endpoints : FetchFails(b, e)

SpecView == InitView /\ [][NextView]_vars
\* as SpecView, and every request eventually responds or fails, so every
\* outstanding forkJoin eventually emits or errors
SettleBatch(b) == ForkJoinEmits(b) \/ \E e \in Endpoints : FetchFails(b, e)

SpecViewLive ==
    SpecView /\ \A b \in 1..MaxBatches : WF_vars(SettleBatch(b))

(***************************************************************************)
(* Vocabulary of the properties of the dashboard's data loading.           *)
(***************************************************************************)
\* a step of one of the realtime change handlers, which call debouncedLoadData
DebounceCall ==
    \/ \E t \in DepartmentSelectValues : OnDepartmentChangeRealtime(t)
    \/ \E v \in MultiSelectValues(AdvertiserPicks) : OnAdvertiserChangeRealtime(v)
    \/ \E v \in MultiSelectValues(PartnerPicks) : OnPartnerChangeRealtime(v)
    \/ \E v \in MultiSelectValues(CouponPicks) : OnCouponChangeRealtime(v)

BatchOutstanding(b) == b \in DOMAIN batches /\ batches[b].state = "outstanding"

BatchClosed(b) == b \in DOMAIN batches /\ batches[b].state # "outstanding"

\* the view shows what the requests for q and page answer
Shows(q, page) ==
    /\ kpis = Data(q)
    /\ tableData = <<TableRow(q, page)>>
    /\ totalRecords = NumPages
    /\ graphData = Data(q)
    /\ lineChart = Data(q)
    /\ pieChart = Data(q)

\* the view shows nothing
ShowsNothing ==
    /\ kpis = NoData
    /\ tableData = <<>>
    /\ totalRecords = 0
    /\ graphData = NoData
    /\ lineChart = NoData
    /\ pieChart = NoData

(***************************************************************************)
(* C14: a call of debouncedLoadData leaves one pending timeout with the    *)
(* full delay, whatever was pending before, and dispatches nothing; the    *)
(* timeout that fires dispatches exactly one batch, built from the         *)
(* selection and page of that moment, and leaves no timeout pending. So a  *)
(* burst of calls, each less than DEBOUNCE_DELAY after the one before,     *)
(* executes loadData once, with the selection left by the last call.       *)
(***************************************************************************)
C14_CallStep ==
    DebounceCall => timeouts' = <<DEBOUNCE_DELAY>> /\ batches' = batches

C14_FireStep ==
    TimerFires =>
        /\ batches' = Append(batches, NewBatch(BuildParams(filters), currentPage))
        /\ timeouts' = <<>>
        /\ filters' = filters

C14_WaitStep == TimePasses => filters' = filters /\ batches' = batches

C14_BurstLoadsOnce ==
    /\ [][C14_CallStep /\ C14_FireStep /\ C14_WaitStep]_vars
    /\ [](Len(timeouts) <= 1)

\* after ngOnInit's batch, two calls (advertiser and department) were made
\* before the timer fired, and the one batch it dispatched carries both
C14_Witness ==
    /\ Len(batches) = 2
    /\ filterDebounceTimer = "fired"
    /\ timeouts = <<>>
    /\ BatchOutstanding(2)
    /\ batches[2].params.advertiser_id = <<1>>
    /\ batches[2].params.partner_type = "MB"
    /\ batches[2].params = BuildParams(filters)

(***************************************************************************)
(* C15: when a batch settles after a batch dispatched later than it has    *)
(* been applied, its results are discarded: kpis, tableData, totalRecords, *)
(* graphData and the charts stay as they are.                              *)
(***************************************************************************)
C15_LateSettleStep ==
    \A b \in DOMAIN batches :
        (SettleBatch(b) /\ \E j \in DOMAIN batches : j > b /\ batches[j].state = "applied")
            => UNCHANGED dataVars

C15_StaleBatchDiscarded == [][C15_LateSettleStep]_vars

(***************************************************************************)
(* C16: when no timer is pending and every batch has settled successfully, *)
(* the view shows the data for the current selection and page.             *)
(***************************************************************************)
C16_LatestSelectionShown ==
    (/\ Len(batches) > 0
     /\ timeouts = <<>>
     /\ \A b \in DOMAIN batches : batches[b].state = "applied")
        => Shows(BuildParams(filters), currentPage)

(***************************************************************************)
(* C17: a step that changes the selection while a timeout is pending       *)
(* cancels it: afterwards no timeout is pending, or the only pending one   *)
(* is a new one with the full delay.                                       *)
(***************************************************************************)
C17_ChangeStep ==
    (filters' # filters /\ timeouts # <<>>) =>
        timeouts' \in {<<>>, <<DEBOUNCE_DELAY>>}

C17_ChangeCancelsTimer == [][C17_ChangeStep]_vars

(***************************************************************************)
(* C19: when a request of a batch fails, the view shows nothing            *)
(* afterwards: kpis, table rows, record count, line chart and pie chart    *)
(* are all empty, none keeps the data of an earlier batch.                 *)
(***************************************************************************)
C19_FailStep ==
    \A b \in DOMAIN batches :
        (\E e \in Endpoints : FetchFails(b, e)) => ShowsNothing'

C19_FailureEmptiesView == [][C19_FailStep]_vars

(***************************************************************************)
(* C20: given that every request eventually responds or fails, every       *)
(* batch loadData dispatches is eventually closed; the step that closes it *)
(* runs the next callback, which sets loading and showSkeletons to false,  *)
(* and a failure reaches it as the empty results, not as an error.         *)
(***************************************************************************)
C20_SettleStep ==
    \A b \in DOMAIN batches :
        /\ SettleBatch(b) => ~loading' /\ ~showSkeletons' /\ BatchClosed(b)'
        /\ (\E e \in Endpoints : FetchFails(b, e)) =>
               tableData' = EmptyResults.tableData.results
               /\ totalRecords' = EmptyResults.tableData.count

C20_EveryBatchSettles ==
    /\ [][C20_SettleStep]_vars
    /\ \A b \in 1..MaxBatches : BatchOutstanding(b) ~> BatchClosed(b)

\* a batch has failed after an earlier one was applied, and the view is idle
C20_Witness ==
    /\ Len(batches) = 2
    /\ batches[1].state = "applied"
    /\ batches[2].state = "failed"
    /\ ~loading
    /\ ~showSkeletons
(***************************************************************************)
(* DashboardService: the request Maps of getKPIs, getGraphData,            *)
(* getTableData and getPieChartData. A string is the sequence of the       *)
(* pieces it is concatenated from.                                         *)
(***************************************************************************)
\* Array.prototype.join(sep) of the elements' strings
RECURSIVE Join(_, _)
Join(s, sep) ==
    IF s = <<>> THEN <<>>
    ELSE IF Len(s) = 1 THEN <<ToString(s[1])>>
    ELSE <<ToString(s[1]), sep>> \o Join(Tail(s), sep)

\* Array.isArray(v) ? v.join(',') : (v || '')
KeyPart(v) ==
    IF v.tag = "array" THEN Join(v.vals, ",")
    ELSE IF v.tag = "scalar" THEN <<ToString(v.vals[1])>>
    ELSE <<>>

\* filters.partner_type || ''
KeyString(t) == IF ParamString(t) = "" THEN <<>> ELSE <<t>>

\* buildCacheKey(endpoint, filters); team_member_id, date_from and date_to
\* are absent from the selections modelled here and contribute ''
BuildCacheKey(endpoint, f) ==
    endpoint \o <<":">> \o KeyString(f.partner_type)
        \o <<"|">> \o KeyPart(f.advertiser_id)
        \o <<"|">> \o KeyPart(f.partner_id)
        \o <<"|">>
        \o <<"|">> \o KeyPart(f.coupon_code)
        \o <<"|">>
        \o <<"|">>

\* a request without page parameters
Unpaged == 0

\* the values of the pageSize argument of getTableData: its default, which
\* the dashboard passes, and another
PageSizes == {50, 100}

\* the HTTP request a get* method builds: buildParams(filters), and for the
\* table page and page_size
Request(f, page, pageSize) ==
    [params |-> BuildParams(f), page |-> page, page_size |-> pageSize]

\* the entries of all four Maps
Registered == UNION {serviceCaches[m] : m \in CacheNames}

\* the HTTP request an observable sends when it is subscribed to
HttpCall(m, key, request) ==
    [cache |-> m, key |-> key, request |-> request, state |-> "outstanding"]

\* a get* method called and its result subscribed to, as forkJoin does:
\* if (cache.has(cacheKey)) return cache.get(cacheKey); otherwise build the
\* request, cache.set(cacheKey, request) and return it. The subscription to
\* a new observable sends its HTTP request; shareReplay(1) shares a request
\* in flight, replays a response, and sends the request again after an error.
GetShared(m, key, request) ==
    /\ IF \E x \in serviceCaches[m] : x.key = key
       THEN LET x == CHOOSE y \in serviceCaches[m] : y.key = key
            IN IF httpCalls[x.call].state = "failed"
               THEN /\ Len(httpCalls) < MaxCalls
                    /\ httpCalls' = Append(httpCalls, HttpCall(m, key, x.request))
                    /\ lastCall' = [asked |-> <<request>>, served |-> <<x.request>>]
                    /\ serviceCaches' =
                           [serviceCaches EXCEPT
                               ![m] = (@ \ {x}) \cup {[x EXCEPT !.call = Len(httpCalls')]}]
               ELSE /\ lastCall' = [asked |-> <<request>>, served |-> <<x.request>>]
                    /\ UNCHANGED <<serviceCaches, httpCalls>>
       ELSE /\ Cardinality(Registered) < MaxRegistered
            /\ lastCall' = [asked |-> <<request>>, served |-> <<request>>]
            /\ Len(httpCalls) < MaxCalls
            /\ httpCalls' = Append(httpCalls, HttpCall(m, key, request))
            /\ serviceCaches' =
                   [serviceCaches EXCEPT
                       ![m] = @ \cup {[key |-> key, request |-> request,
                                       call |-> Len(httpCalls')]}]
    /\ UNCHANGED <<dashVars, cacheVars, authVars, viewVars, pageVars, requestVars>>

\* the backend answers the HTTP request i
HttpResponds(i) ==
    /\ i \in DOMAIN httpCalls
    /\ httpCalls[i].state = "outstanding"
    /\ httpCalls' = [httpCalls EXCEPT ![i].state = "responded"]
    /\ UNCHANGED <<serviceCaches, lastCall>>
    /\ UNCHANGED <<dashVars, cacheVars, authVars, viewVars, pageVars, requestVars>>

\* the HTTP request i fails
HttpFails(i) ==
    /\ i \in DOMAIN httpCalls
    /\ httpCalls[i].state = "outstanding"
    /\ httpCalls' = [httpCalls EXCEPT ![i].state = "failed"]
    /\ UNCHANGED <<serviceCaches, lastCall>>
    /\ UNCHANGED <<dashVars, cacheVars, authVars, viewVars, pageVars, requestVars>>

GetKPIs(f) ==
    GetShared("kpiCache", BuildCacheKey(<<"kpis">>, f), Request(f, Unpaged, Unpaged))

GetGraphData(f) ==
    GetShared("graphDataCache", BuildCacheKey(<<"graph-data">>, f),
              Request(f, Unpaged, Unpaged))

GetTableData(f, page, pageSize) ==
    GetShared("tableDataCache",
              BuildCacheKey(<<"table-data-p", ToString(page)>>, f),
              Request(f, page, pageSize))

GetPieChartData(f) ==
    GetShared("pieChartCache", BuildCacheKey(<<"pie-chart-data">>, f),
              Request(f, Unpaged, Unpaged))

\* setTimeout(() => cache.delete(cacheKey), 30000)
CacheTimeout(m, key) ==
    /\ \E x \in serviceCaches[m] : x.key = key
    /\ serviceCaches' = [serviceCaches EXCEPT ![m] = {x \in @ : x.key # key}]
    /\ UNCHANGED <<httpCalls, lastCall>>
    /\ UNCHANGED <<dashVars, cacheVars, authVars, viewVars, pageVars, requestVars>>

\* the ids the selections passed to the service are made of
KeyIds == {1, 2}

\* the selections the component passes to the service
KeySelections ==
    [advertiser_id : ArrayFieldValues(KeyIds),
     partner_id : {NullField},
     coupon_code : {NullField},
     partner_type : {NullString, "MB"}]

InitKeys == InitView

NextKeys ==
    \/ \E f \in KeySelections : GetKPIs(f)
    \/ \E f \in KeySelections : GetGraphData(f)
    \/ \E f \in KeySelections, page \in Pages, pageSize \in PageSizes :
           GetTableData(f, page, pageSize)
    \/ \E f \in KeySelections : GetPieChartData(f)
    \/ \E m \in CacheNames, x \in Registered : CacheTimeout(m, x.key)
    \/ \E i \in 1..MaxCalls : HttpResponds(i)
    \/ \E i \in 1..MaxCalls : HttpFails(i)

SpecKeys == InitKeys /\ [][NextKeys]_vars

(***************************************************************************)
(* C18: two requests of one endpoint whose selections hold the same sets   *)
(* of advertiser ids, partner ids and coupon codes, in any array order,    *)
(* and the same partner_type and page, have the same cache key, so the Map *)
(* never holds two entries for them.                                       *)
(***************************************************************************)
SameSets(q1, q2) ==
    /\ q1.partner_type = q2.partner_type
    /\ Range(q1.advertiser_id) = Range(q2.advertiser_id)
    /\ Range(q1.partner_id) = Range(q2.partner_id)
    /\ Range(q1.coupon_code) = Range(q2.coupon_code)

C18_KeyIgnoresArrayOrder ==
    \A m \in CacheNames : \A x, y \in serviceCaches[m] :
        (SameSets(x.request.params, y.request.params) /\ x.request.page = y.request.page)
            => x.key = y.key
(***************************************************************************)
(* Claims about the option lists and the master lists.                     *)
(***************************************************************************)
\* s holds only entries of t, each at most as often as t, in the order of t
RECURSIVE IsSubSequence(_, _)
IsSubSequence(s, t) ==
    IF s = <<>> THEN TRUE
    ELSE IF t = <<>> THEN FALSE
    ELSE IF Head(s) = Head(t) THEN IsSubSequence(Tail(s), Tail(t))
    ELSE IsSubSequence(s, Tail(t))

\* C21: after recomputeFilterDropdowns, for every selection, each of the
\* option lists advertisers, partners and coupons is a sub-sequence of its
\* master list: only master entries, none more often than in the master
\* list, in the master list's order.
C21_OptionsAreSubSequences ==
    pc = "resolved" =>
        /\ IsSubSequence(advertisers, allAdvertisers)
        /\ IsSubSequence(partners, allPartners)
        /\ IsSubSequence(coupons, allCoupons)

\* recomputeFilterDropdowns has run on an active selection and kept several
\* advertisers while it narrowed the coupon list
C21_Witness ==
    /\ pc = "resolved"
    /\ ~NoFilterActive(filters)
    /\ Len(advertisers) >= 2
    /\ Len(coupons) >= 1
    /\ Len(coupons) < Len(allCoupons)
    /\ Len(partners) < Len(allPartners)
    /\ IsSubSequence(advertisers, allAdvertisers)

\* C22: once the master lists allAdvertisers, allPartners and allCoupons are
\* loaded, no filter operation (realtime change handler, clear*Filter,
\* removeFilter, clearFilters, recomputeFilterDropdowns, loadData and its
\* callbacks) changes their contents or order.
C22_MasterListsImmutable == [][masterVars' = masterVars]_vars

\* the handlers have narrowed the option lists and started loads, and the
\* master lists are the lists loadFilterOptions built
C22_Witness ==
    /\ pc = "resolved"
    /\ ~NoFilterActive(filters)
    /\ Len(coupons) < Len(allCoupons)
    /\ Len(advertisers) < Len(allAdvertisers)
    /\ Len(batches) = MaxBatches
    /\ allAdvertisers = MasterAdvertisers(OptionAdvertisers)
    /\ allPartners = MasterPartners(OptionPartners)
    /\ allCoupons = MasterCoupons(ViewCatalog)

(***************************************************************************)
(* Claims about the request Maps of DashboardService.                      *)
(***************************************************************************)
\* the HTTP requests in flight for the key of one Map
OutstandingCalls(m, key) ==
    {i \in DOMAIN httpCalls :
        /\ httpCalls[i].cache = m
        /\ httpCalls[i].key = key
        /\ httpCalls[i].state = "outstanding"}

\* C23: for getKPIs, getGraphData, getTableData and getPieChartData, while
\* an HTTP request for a cache key is outstanding, every further call with
\* that key returns the outstanding request and sends no second HTTP request
\* for the key, however long the request takes to settle: no key ever has
\* two HTTP requests in flight.
C23_OneRequestInFlightPerKey ==
    \A i \in DOMAIN httpCalls :
        Cardinality(OutstandingCalls(httpCalls[i].cache, httpCalls[i].key)) <= 1

(***************************************************************************)
(* CouponsComponent: the filters of the coupons page.                      *)
(***************************************************************************)
\* `${c.code}|${c.advertiser_id}`
CompoundKey(c) == <<ToString(c.code), "|", ToString(c.advertiser_id)>>

\* rows.map(c => ({label, value: `${c.code}|${c.advertiser_id}`})): the values
CouponOptionsOf(rows) == [i \in DOMAIN rows |-> CompoundKey(rows[i])]

\* String.prototype.split('|')[0]
RECURSIVE SplitHead(_)
SplitHead(str) ==
    IF str = <<>> \/ Head(str) = "|" THEN <<>>
    ELSE <<Head(str)>> \o SplitHead(Tail(str))

\* filterCoupon.includes('|') ? filterCoupon.split('|')[0] : filterCoupon
FilterCode(fc) == IF Includes(fc, "|") THEN SplitHead(fc) ELSE fc

\* the rows recomputeFilterDropdowns derives the options from
FilteredData(all, fa, fp, fc) ==
    LET s1 == IF fa # NoFilterId
              THEN Filter(all, [c \in Range(all) |-> c.advertiser_id = fa])
              ELSE all
        s2 == IF fp # NoFilterId
              THEN Filter(s1, [c \in Range(s1) |-> c.partner_id = fp])
              ELSE s1
        s3 == IF fc # NoFilterString
              THEN Filter(s2, [c \in Range(s2) |-> <<ToString(c.code)>> = FilterCode(fc)])
              ELSE s2
    IN s3

\* CouponsComponent.recomputeFilterDropdowns with the filter values fa, fp, fc
CouponsRecomputeFilterDropdowns(fa, fp, fc) ==
    LET filteredData == FilteredData(allCoupons, fa, fp, fc)
        advertiserIds == {c.advertiser_id : c \in Range(filteredData)}
        partnerIds == {c.partner_id : c \in {d \in Range(filteredData) : d.partner_id # NoPartner}}
    IN /\ advertisers' = Filter(allAdvertisers, [a \in Range(allAdvertisers) |-> a.value \in advertiserIds])
       /\ partners' = Filter(allPartners, [x \in Range(allPartners) |-> x.value \in partnerIds])
       /\ couponOptions' = CouponOptionsOf(filteredData)

\* the predicate of CouponsComponent.applyFilters
PassesPageFilters(c, unassignedOnly, fa, fp, fc) ==
    /\ ~(unassignedOnly /\ c.partner_id # NoPartner)
    /\ ~(fa # NoFilterId /\ c.advertiser_id # fa)
    /\ ~(fp # NoFilterId /\ c.partner_id # fp)
    /\ ~(fc # NoFilterString /\ <<ToString(c.code)>> # fc)

\* CouponsComponent.applyFilters
CouponsApplyFilters(unassignedOnly, fa, fp, fc) ==
    filteredCoupons' =
        Filter(allCoupons,
               [c \in Range(allCoupons) |-> PassesPageFilters(c, unassignedOnly, fa, fp, fc)])

\* what the handlers of the coupons page leave alone
PageFrame ==
    /\ UNCHANGED <<masterVars, coupons, filters, pc>>
    /\ UNCHANGED <<cacheVars, authVars, viewVars, serviceVars, requestVars>>

\* the advertiser dropdown writes v, then onFilterAdvertiserChange()
OnFilterAdvertiserChange(v) ==
    /\ filterAdvertiser' = v
    /\ CouponsRecomputeFilterDropdowns(filterAdvertiser', filterPartner, filterCoupon)
    /\ CouponsApplyFilters(showUnassignedOnly, filterAdvertiser', filterPartner, filterCoupon)
    /\ UNCHANGED <<filterPartner, filterCoupon, showUnassignedOnly>>
    /\ PageFrame

\* the partner dropdown writes v, then onFilterPartnerChange()
OnFilterPartnerChange(v) ==
    /\ filterPartner' = v
    /\ CouponsRecomputeFilterDropdowns(filterAdvertiser, filterPartner', filterCoupon)
    /\ CouponsApplyFilters(showUnassignedOnly, filterAdvertiser, filterPartner', filterCoupon)
    /\ UNCHANGED <<filterAdvertiser, filterCoupon, showUnassignedOnly>>
    /\ PageFrame

\* the coupon dropdown writes v, then onFilterCouponChange()
OnFilterCouponChange(v) ==
    /\ filterCoupon' = v
    /\ CouponsRecomputeFilterDropdowns(filterAdvertiser, filterPartner, filterCoupon')
    /\ CouponsApplyFilters(showUnassignedOnly, filterAdvertiser, filterPartner, filterCoupon')
    /\ UNCHANGED <<filterAdvertiser, filterPartner, showUnassignedOnly>>
    /\ PageFrame

ToggleUnassignedFilter ==
    /\ showUnassignedOnly' = ~showUnassignedOnly
    /\ CouponsApplyFilters(showUnassignedOnly', filterAdvertiser, filterPartner, filterCoupon)
    /\ UNCHANGED <<filterAdvertiser, filterPartner, filterCoupon>>
    /\ UNCHANGED <<advertisers, partners, couponOptions>>
    /\ PageFrame

\* CouponsComponent.clearFilters
CouponsClearFilters ==
    /\ filterAdvertiser' = NoFilterId
    /\ filterPartner' = NoFilterId
    /\ filterCoupon' = NoFilterString
    /\ showUnassignedOnly' = FALSE
    /\ filteredCoupons' = allCoupons
    /\ advertisers' = allAdvertisers
    /\ partners' = allPartners
    /\ couponOptions' = CouponOptionsOf(allCoupons)
    /\ PageFrame

\* getAdvertisers / getPartners mapped to {label, value}
PageAdvertisers == [i \in 1..NumAdvertisers |-> [label |-> i, value |-> i]]

PagePartners == [i \in 1..NumPartners |-> [label |-> i, value |-> i]]

\* the page after CouponsComponent.loadData has received its three responses
InitCoupons ==
    /\ \E list \in OptionCouponLists :
        allCoupons = [i \in DOMAIN list |-> MapCoupon(list[i])]
    /\ coupons = allCoupons
    /\ allAdvertisers = PageAdvertisers
    /\ allPartners = PagePartners
    /\ advertisers = allAdvertisers
    /\ partners = allPartners
    /\ filters = NoFilters
    /\ pc = "loaded"
    /\ filterAdvertiser = NoFilterId
    /\ filterPartner = NoFilterId
    /\ filterCoupon = NoFilterString
    /\ showUnassignedOnly = FALSE
    /\ couponOptions = CouponOptionsOf(allCoupons)
    /\ filteredCoupons = allCoupons
    /\ CacheConstructed
    /\ AuthConstructed
    /\ ViewConstructed
    /\ ServiceConstructed

\* the dropdowns offer their current options and the empty choice
NextCoupons ==
    \/ \E v \in {a.value : a \in Range(advertisers)} \cup {NoFilterId} :
           OnFilterAdvertiserChange(v)
    \/ \E v \in {x.value : x \in Range(partners)} \cup {NoFilterId} :
           OnFilterPartnerChange(v)
    \/ \E v \in Range(couponOptions) \cup {NoFilterString} : OnFilterCouponChange(v)
    \/ ToggleUnassignedFilter
    \/ CouponsClearFilters

SpecCoupons == InitCoupons /\ [][NextCoupons]_vars

\* C24: on the coupons page, when filterCoupon is the option value
\* "code|advertiser_id" the coupon dropdown offers, applyFilters shows exactly
\* the coupons with that code and that advertiser (among those the other
\* filters pass), and recomputeFilterDropdowns narrows the advertiser options
\* to that coupon's advertiser only.
C24_CompoundKeyConsistent ==
    \A c \in Range(allCoupons) :
        filterCoupon = CompoundKey(c) =>
            /\ filteredCoupons =
                   Filter(allCoupons,
                          [r \in Range(allCoupons) |->
                              /\ r.code = c.code
                              /\ r.advertiser_id = c.advertiser_id
                              /\ PassesPageFilters(r, showUnassignedOnly, filterAdvertiser,
                                                   filterPartner, NoFilterString)])
            /\ {a.value : a \in Range(advertisers)} \subseteq {c.advertiser_id}

(***************************************************************************)
(* AuthService.login step by step: the login request, then the request of  *)
(* the user context.                                                       *)
(***************************************************************************)
\* the HTTP statuses of a failed request: 0 and 5xx stand for the error left
\* after the interceptor's two retries
Statuses == {401, 403, 500}

\* what the steps of login leave alone
LoginFrame ==
    /\ UNCHANGED intercepted
    /\ UNCHANGED <<dashVars, cacheVars, viewVars, serviceVars, pageVars>>

\* login(credentials) is subscribed to: POST /login/ is sent
LoginStart(u) ==
    /\ loginCall.pc \in {"idle", "success", "failed"}
    /\ loginCall' = [pc |-> "login", username |-> u]
    /\ UNCHANGED authVars
    /\ LoginFrame

\* POST /login/ responds with the tokens (response.access is set):
\* setToken, setRefreshToken, the signal set, resetIdleTimer; then the
\* context request is sent
LoginResponds ==
    /\ loginCall.pc = "login"
    /\ localStorage' = [localStorage EXCEPT !.auth_token = "login", !.refresh_token = "login"]
    /\ isAuthenticated' = TRUE
    /\ idleTimer' = TRUE
    /\ loginCall' = [loginCall EXCEPT !.pc = "context"]
    /\ UNCHANGED <<currentUser, routerUrl>>
    /\ LoginFrame

\* what the interceptor does with the error of a request before it rethrows
\* it: handleSessionExpired and navigation to /login on 401 and 403
ExpiresSession(status) == status \in {401, 403}

\* variant: the error is reported without clearAuth
LoginFails_NoClear(status) ==
    /\ loginCall.pc = "login"
    /\ UNCHANGED <<localStorage, isAuthenticated, currentUser>>
    /\ routerUrl' = IF ExpiresSession(status) THEN "/login" ELSE routerUrl
    /\ loginCall' = [loginCall EXCEPT !.pc = "failed"]
    /\ UNCHANGED idleTimer
    /\ LoginFrame

\* POST /login/ fails: the interceptor passes the error on (after
\* handleSessionExpired on a 401 or 403), catchError runs clearAuth
LoginFails(status) ==
    /\ loginCall.pc = "login"
    /\ ClearAuth
    /\ routerUrl' = IF ExpiresSession(status) THEN "/login" ELSE routerUrl
    /\ loginCall' = [loginCall EXCEPT !.pc = "failed"]
    /\ UNCHANGED idleTimer
    /\ LoginFrame

\* the context request responds: setUser, currentUserSignal.set, success
ContextResponds ==
    /\ loginCall.pc = "context"
    /\ localStorage' = [localStorage EXCEPT !.logged_user = loginCall.username]
    /\ currentUser' = loginCall.username
    /\ loginCall' = [loginCall EXCEPT !.pc = "success"]
    /\ UNCHANGED <<isAuthenticated, idleTimer, routerUrl>>
    /\ LoginFrame

\* the context request ends in an error, whatever the interceptor tried for
\* it: catchError runs clearAuth
ContextFails(status) ==
    /\ loginCall.pc = "context"
    /\ ClearAuth
    /\ routerUrl' = IF ExpiresSession(status) THEN "/login" ELSE routerUrl
    /\ loginCall' = [loginCall EXCEPT !.pc = "failed"]
    /\ UNCHANGED idleTimer
    /\ LoginFrame

(***************************************************************************)
(* authInterceptor: one request on its way through the interceptor. The    *)
(* outcome returned to the caller is "ok", or the error of the first       *)
(* attempt ("original") or of the re-sent request ("retry") with its       *)
(* status.                                                                 *)
(***************************************************************************)
\* req.url: the login endpoint, the token-refresh endpoint, any other
Urls == {"/login/", "/token/refresh/", "/api/"}

Ok == [ok |-> TRUE, status |-> 200, of |-> "none"]

Error(status, of) == [ok |-> FALSE, status |-> status, of |-> of]

\* what the steps of the interceptor leave alone
InterceptFrame ==
    /\ UNCHANGED loginCall
    /\ UNCHANGED <<dashVars, cacheVars, viewVars, serviceVars, pageVars>>

\* authService.handleSessionExpired(); router.navigate(['/login'])
SessionExpired ==
    /\ ClearAuth
    /\ routerUrl' = "/login"
    /\ UNCHANGED idleTimer

\* a request enters the interceptor and is sent with the stored token
Intercept(url) ==
    /\ intercepted.pc \in {"idle", "done"}
    /\ intercepted' = [NoRequestIntercepted EXCEPT
                          !.pc = "sent", !.url = url, !.header = localStorage.auth_token]
    /\ UNCHANGED authVars
    /\ InterceptFrame

\* the request responds
RequestResponds ==
    /\ intercepted.pc = "sent"
    /\ intercepted' = [intercepted EXCEPT !.pc = "done", !.returned = Ok]
    /\ UNCHANGED authVars
    /\ InterceptFrame

\* the endpoints whose 401 is not answered with a refresh
RefreshExempt(url) == url \in {"/login/", "/token/refresh/"}

\* the request fails with the status (after the retries on 0 and 5xx):
\* catchError of the interceptor
RequestFails(status) ==
    /\ intercepted.pc = "sent"
    /\ IF status = 401 /\ ~RefreshExempt(intercepted.url)
       THEN IF localStorage.refresh_token = NoItem
            THEN \* refreshToken() throws: no refresh token available
                 /\ SessionExpired
                 /\ intercepted' = [intercepted EXCEPT
                                       !.pc = "done", !.refreshCalls = @ + 1,
                                       !.returned = Error(401, "original")]
            ELSE \* refreshToken() sends POST /token/refresh/
                 /\ intercepted' = [intercepted EXCEPT
                                       !.pc = "refreshing", !.refreshCalls = @ + 1]
                 /\ UNCHANGED authVars
       ELSE /\ IF ExpiresSession(status) THEN SessionExpired ELSE UNCHANGED authVars
            /\ intercepted' = [intercepted EXCEPT
                                  !.pc = "done", !.returned = Error(status, "original")]
    /\ InterceptFrame

\* the token refresh responds: setToken, resetIdleTimer; switchMap re-sends
\* the original request with the new access token
RefreshResponds ==
    /\ intercepted.pc = "refreshing"
    /\ localStorage' = [localStorage EXCEPT !.auth_token = "refreshed"]
    /\ idleTimer' = (idleTimer \/ isAuthenticated)
    /\ intercepted' = [intercepted EXCEPT
                          !.pc = "retrying", !.refreshed = TRUE,
                          !.resends = @ + 1, !.header = "refreshed"]
    /\ UNCHANGED <<isAuthenticated, currentUser, routerUrl>>
    /\ InterceptFrame

\* the token refresh fails: clearAuth and navigation in refreshToken's
\* catchError, then handleSessionExpired in the interceptor's; the error of
\* the original request is rethrown
RefreshFails ==
    /\ intercepted.pc = "refreshing"
    /\ SessionExpired
    /\ intercepted' = [intercepted EXCEPT
                          !.pc = "done", !.returned = Error(401, "original")]
    /\ InterceptFrame

\* the re-sent request responds
RetryResponds ==
    /\ intercepted.pc = "retrying"
    /\ intercepted' = [intercepted EXCEPT
                          !.pc = "done", !.retryOutcome = Ok, !.returned = Ok]
    /\ UNCHANGED authVars
    /\ InterceptFrame

\* the re-sent request fails: the catchError placed after switchMap catches
\* its error too, expires the session and rethrows the original error
RetryFails(status) ==
    /\ intercepted.pc = "retrying"
    /\ SessionExpired
    /\ intercepted' = [intercepted EXCEPT
                          !.pc = "done", !.retryOutcome = Error(status, "retry"),
                          !.returned = Error(401, "original")]
    /\ InterceptFrame

(***************************************************************************)
(* Authentication specification: calls of login, requests through the      *)
(* interceptor, logout and the idle timeout, in any interleaving.          *)
(***************************************************************************)
InitAuth == InitCache

NextAuth ==
    \/ \E u \in Users : LoginStart(u)
    \/ LoginResponds
    \/ \E status \in Statuses : LoginFails(status)
    \/ ContextResponds
    \/ \E status \in Statuses : ContextFails(status)
    \/ \E url \in Urls : Intercept(url)
    \/ RequestResponds
    \/ \E status \in Statuses : RequestFails(status)
    \/ RefreshResponds
    \/ RefreshFails
    \/ RetryResponds
    \/ \E status \in Statuses : RetryFails(status)
    \/ Logout
    \/ IdleTimeout

SpecAuth == InitAuth /\ [][NextAuth]_vars

\* C25: a request that fails with 401 and is neither the login nor the
\* token-refresh endpoint triggers one token refresh; if the refresh
\* succeeds, the request is re-sent once with the new access token and the
\* outcome of the re-sent request is returned; if the refresh fails, the
\* session is expired (auth state cleared, navigation to /login) and the
\* original 401 error is returned; a 401 on the login or token-refresh
\* endpoint never starts a refresh.
C25_RefreshStep ==
    (intercepted.pc = "sent" /\ intercepted'.pc = "refreshing")
        => /\ ~RefreshExempt(intercepted.url)
           /\ intercepted'.refreshCalls = 1

C25_ResendStep ==
    (intercepted.pc = "refreshing" /\ intercepted'.pc = "retrying")
        => /\ intercepted'.resends = 1
           /\ intercepted'.header = localStorage'.auth_token
           /\ intercepted'.header = "refreshed"

C25_RetryOutcomeStep ==
    (intercepted.pc = "retrying" /\ intercepted'.pc = "done")
        => /\ intercepted'.returned.ok = intercepted'.retryOutcome.ok
           /\ intercepted'.returned.status = intercepted'.retryOutcome.status

C25_RefreshFailedStep ==
    (intercepted.pc = "refreshing" /\ intercepted'.pc = "done")
        => /\ localStorage' = EmptyStorage
           /\ ~isAuthenticated'
           /\ currentUser' = NoUser
           /\ routerUrl' = "/login"
           /\ intercepted'.returned = Error(401, "original")

C25_NoRefreshLoop ==
    /\ intercepted.refreshCalls <= 1
    /\ intercepted.resends <= 1
    /\ RefreshExempt(intercepted.url) => intercepted.refreshCalls = 0

C25_InterceptorProtocol ==
    /\ [][C25_RefreshStep /\ C25_ResendStep /\ C25_RetryOutcomeStep
             /\ C25_RefreshFailedStep]_vars
    /\ [](C25_NoRefreshLoop)

\* C26: login reports success only after the user context has been fetched
\* and stored as the current user; when the login request or the context
\* request fails, the access token, the refresh token and the stored user
\* are removed, isAuthenticated is false and currentUser is null.
C26_SuccessStep ==
    (loginCall'.pc = "success" /\ loginCall.pc # "success")
        => /\ loginCall.pc = "context"
           /\ currentUser' = loginCall.username
           /\ localStorage'.logged_user = loginCall.username

C26_FailureStep ==
    (loginCall'.pc = "failed" /\ loginCall.pc # "failed")
        => /\ localStorage' = EmptyStorage
           /\ ~isAuthenticated'
           /\ currentUser' = NoUser

C26_LoginAllOrNothing == [][C26_SuccessStep /\ C26_FailureStep]_vars

\* a login has failed at the context request, after its tokens were stored
\* and the idle timer armed, and nothing is left of it
C26_Witness ==
    /\ loginCall.pc = "failed"
    /\ idleTimer
    /\ intercepted.pc = "idle"
    /\ localStorage = EmptyStorage
    /\ ~isAuthenticated
    /\ currentUser = NoUser

(***************************************************************************)
(* Claims about invalidation while a fetch is outstanding.                 *)
(***************************************************************************)
\* the step in which the request of observable id responds for the first
\* time
FirstResponse(id) == obs[id].state = "running" /\ obs'[id].state = "done"

\* observable id is no longer the registered observable of its key: an
\* invalidation has removed its registration while its request was running
CutOff(id) == requests[obs[id].key] # id

\* C27: after invalidate(key) or invalidateAll() was called while a fetch for
\* the key was outstanding, the later completion of that old fetch neither
\* writes a cache entry for the key nor removes the in-flight registration
\* of a newer fetch started for the key after the invalidation, so a get
\* after the invalidation never returns data of a fetch started before it.
C27_LateCompletionStep ==
    \A id \in DOMAIN obs :
        (FirstResponse(id) /\ CutOff(id))
            => /\ cache'[obs[id].key] = cache[obs[id].key]
               /\ requests'[obs[id].key] = requests[obs[id].key]

C27_InvalidationCutsOffOldFetch == [][C27_LateCompletionStep]_vars

(***************************************************************************)
(* Claims about the loading flags and the page of the dashboard.           *)
(***************************************************************************)
\* C28: loading and showSkeletons are true whenever at least one loadData
\* batch is outstanding: when two batches overlap, the settling of one does
\* not set loading to false while the other is still in flight.
C28_LoadingWhileOutstanding ==
    (\E b \in DOMAIN batches : BatchOutstanding(b)) => (loading /\ showSkeletons)

\* the dashboard after its first loads: it shows a page of the unfiltered
\* data, nothing is selected and no request or timer is pending
InitPaging ==
    /\ allAdvertisers = MasterAdvertisers(OptionAdvertisers)
    /\ allPartners = MasterPartners(OptionPartners)
    /\ allCoupons = MasterCoupons(ViewCatalog)
    /\ advertisers = allAdvertisers
    /\ partners = allPartners
    /\ coupons = allCoupons
    /\ filters = NoFilters
    /\ pc = "resolved"
    /\ currentPage \in Pages
    /\ kpis = Data(NoParams)
    /\ tableData = <<TableRow(NoParams, currentPage)>>
    /\ totalRecords = NumPages
    /\ graphData = Data(NoParams)
    /\ lineChart = BuildLineChart(graphData)
    /\ pieChart = BuildPieChart(<<Data(NoParams)>>)
    /\ loading = FALSE
    /\ showSkeletons = FALSE
    /\ filterDebounceTimer = "undefined"
    /\ timeouts = <<>>
    /\ batches = <<>>
    /\ isAuthenticated = TRUE
    /\ currentUser = 1
    /\ idleTimer = TRUE
    /\ localStorage = StorageOf(1)
    /\ routerUrl = "/dashboard"
    /\ loginCall = NoLogin
    /\ intercepted = NoRequestIntercepted
    /\ CacheConstructed
    /\ ServiceConstructed
    /\ PageConstructed

\* the handlers and callbacks of the open dashboard
NextPaging ==
    \/ \E t \in DepartmentSelectValues : OnDepartmentChangeRealtime(t)
    \/ \E v \in MultiSelectValues(AdvertiserPicks) : OnAdvertiserChangeRealtime(v)
    \/ \E v \in MultiSelectValues(PartnerPicks) : OnPartnerChangeRealtime(v)
    \/ \E v \in MultiSelectValues(CouponPicks) : OnCouponChangeRealtime(v)
    \/ \E t \in {"department", "advertiser", "partner", "coupon", "date"} : RemoveFilter(t)
    \/ ClearDepartmentFilter
    \/ ClearAdvertiserFilter
    \/ ClearPartnerFilter
    \/ ClearCouponFilter
    \/ ClearFilters
    \/ ApplyFilters
    \/ \E page \in Pages : OnPageChange(page)
    \/ TimePasses
    \/ TimerFires
    \/ \E b \in 1..MaxBatches : ForkJoinEmits(b)
    \/ \E b \in 1..MaxBatches, e \in Endpoints : FetchFails(b, e)

SpecPaging == InitPaging /\ [][NextPaging]_vars

\* the parameters of the table request made last: those of the batch in
\* flight, or else those the rows on display answer
LastRequested ==
    IF batches # <<>> /\ batches[Len(batches)].state = "outstanding"
    THEN <<batches[Len(batches)].params>>
    ELSE IF tableData # <<>> THEN <<tableData[1].params>>
    ELSE <<>>

\* C29: whenever the filter selection changes (realtime change of
\* advertiser, partner, coupon or department, removeFilter, clearFilters,
\* applyFilters), the next table fetch requests page 1: a batch dispatched
\* for other parameters than the table request before it, by a step that is
\* not a page change of the user, requests page 1.
C29_DispatchStep ==
    LET n == Len(batches')
    IN (/\ n > Len(batches)
        /\ ~(\E page \in Pages : OnPageChange(page))
        /\ LastRequested # <<>>
        /\ batches'[n].params # LastRequested[1])
           => batches'[n].page = 1

C29_ChangedSelectionStartsAtPageOne == [][C29_DispatchStep]_vars

\* C30: the cache key of DashboardService determines the request: two calls
\* of getTableData (or getKPIs, getGraphData, getPieChartData) that send
\* different request parameters (filter values, page or page size) never get
\* the same cache key, so a call is never served the observable of a request
\* other than the one it asked for.
C30_KeyDeterminesRequest == lastCall.asked = lastCall.served

====
